---- MODULE Spec2Model ----
(***************************************************************************)
(* Nova3201: the CPU execution engine (src/src/cpu.rs), the address        *)
(* decoder (src/src/bus.rs), the timer and UART devices and the machine    *)
(* composition (src/src/machine.rs), as a state machine.                   *)
(*                                                                         *)
(* A 32-bit word (u32) is the pair <<hi, lo>> of its two 16-bit halves,    *)
(* hi = bits 31..16 and lo = bits 15..0: the value is hi * 65536 + lo.     *)
(* All arithmetic is carried out on the halves and wraps at 2^32.          *)
(***************************************************************************)
EXTENDS Integers, Sequences, FiniteSets, TLC

VARIABLES cpu, bus, last, nloads, nsteps

vars == <<cpu, bus, last, nloads, nsteps>>

(***************************************************************************)
(* Bounds of the exploration.                                              *)
(***************************************************************************)
\* Spec: words the host writes with Machine::load_program, and Cpu::step calls
MaxLoads == 2
MaxSteps == 3
\* SpecIrq: the same, for the interrupt and halt runs
MaxIrqLoads == 1
MaxIrqSteps == 2
\* SpecJump: the same, for the jump runs
MaxJumpLoads == 3
MaxJumpSteps == 4
\* SpecIllegal: the same, for the illegal-opcode runs
MaxIllegalLoads == 2
MaxIllegalSteps == 2
\* SpecTimer: the largest period the host sets, and Timer::tick calls
MaxPeriod == 8
MaxTicks == 17
\* SpecUart: writes to UART TX, and bytes arriving at the backend
MaxTx == 3
MaxRx == 2
\* SpecRx: write_tx calls between the receive operations
MaxRxWrites == 2
\* SpecRun: Machine::step calls on a loaded program
MaxRunSteps == 6
\* SpecAlign: words loaded, and Cpu::step calls, in the alignment runs
MaxAlignLoads == 2
MaxAlignSteps == 3
MaxAsmSteps == 9

(***************************************************************************)
(* u32 arithmetic on halves                                                *)
(***************************************************************************)
Half == 2 ^ 16

Zero32 == <<0, 0>>

\* u32::wrapping_add
Add32(a, b) ==
  LET lo == a[2] + b[2]
      hi == a[1] + b[1] + (lo \div Half)
  IN  <<hi % Half, lo % Half>>

\* bitwise complement !x
Not32(a) == <<(Half - 1) - a[1], (Half - 1) - a[2]>>

\* u32::wrapping_sub: a - b = a + !b + 1 (mod 2^32)
Sub32(a, b) == Add32(Add32(a, Not32(b)), <<0, 1>>)

RECURSIVE And16(_, _, _)
And16(a, b, n) ==
  IF n = 0 THEN 0
  ELSE (a % 2) * (b % 2) + 2 * And16(a \div 2, b \div 2, n - 1)

RECURSIVE Or16(_, _, _)
Or16(a, b, n) ==
  IF n = 0 THEN 0
  ELSE (IF (a % 2) + (b % 2) > 0 THEN 1 ELSE 0) + 2 * Or16(a \div 2, b \div 2, n - 1)

RECURSIVE Xor16(_, _, _)
Xor16(a, b, n) ==
  IF n = 0 THEN 0
  ELSE ((a + b) % 2) + 2 * Xor16(a \div 2, b \div 2, n - 1)

And32(a, b) == <<And16(a[1], b[1], 16), And16(a[2], b[2], 16)>>
Or32(a, b) == <<Or16(a[1], b[1], 16), Or16(a[2], b[2], 16)>>
Xor32(a, b) == <<Xor16(a[1], b[1], 16), Xor16(a[2], b[2], 16)>>

\* unsigned comparison a < b
LtU32(a, b) == a[1] < b[1] \/ (a[1] = b[1] /\ a[2] < b[2])

\* unsigned comparison a <= b
LeU32(a, b) == ~LtU32(b, a)

\* signed comparison (a as i32) < (b as i32): the sign bit is bit 15 of hi
LtS32(a, b) ==
  LtU32(<<(a[1] + 32768) % Half, a[2]>>, <<(b[1] + 32768) % Half, b[2]>>)

\* u32::wrapping_shl(n), 0 <= n <= 31
Shl32(a, n) ==
  IF n >= 16
  THEN <<(a[2] * (2 ^ (n - 16))) % Half, 0>>
  ELSE <<((a[1] * (2 ^ n)) % Half) + ((a[2] * (2 ^ n)) \div Half),
         (a[2] * (2 ^ n)) % Half>>

\* u32::wrapping_shr(n), 0 <= n <= 31 (logical)
Shr32(a, n) ==
  IF n >= 16
  THEN <<0, a[1] \div (2 ^ (n - 16))>>
  ELSE <<a[1] \div (2 ^ n),
         (a[2] \div (2 ^ n)) + (a[1] % (2 ^ n)) * (2 ^ (16 - n))>>

\* i32::wrapping_shr(n) as u32 (arithmetic): the sign bit fills from the left
Sar32(a, n) ==
  IF a[1] >= 32768 THEN Not32(Shr32(Not32(a), n)) ELSE Shr32(a, n)

\* the byte i (0 = least significant) of a word: u32::to_le_bytes
ByteOf(w, i) ==
  IF i = 0 THEN w[2] % 256
  ELSE IF i = 1 THEN w[2] \div 256
  ELSE IF i = 2 THEN w[1] % 256
  ELSE w[1] \div 256

\* u32::from_le_bytes
\* mutant of FromLeBytes: the first byte is the most significant
FromLeBytes_BigEndian(b0, b1, b2, b3) == <<b0 * 256 + b1, b2 * 256 + b3>>

FromLeBytes(b0, b1, b2, b3) == <<b3 * 256 + b2, b1 * 256 + b0>>

\* Cpu::sign_extend_16: (x as i16) as i32 as u32
SignExtend16(x) == <<IF x >= 32768 THEN Half - 1 ELSE 0, x>>

\* (byte as i8) as i32 as u32
SignExtend8(b) ==
  IF b >= 128 THEN <<Half - 1, 65280 + b>> ELSE <<0, b>>

\* x as u32 for a u16 or u8
ZeroExtend(x) == <<0, x>>

(***************************************************************************)
(* Results of bus operations: Ok, or one of the BusError variants with the *)
(* address it carries (src/src/bus.rs, enum BusError).                     *)
(***************************************************************************)
OkRes == [tag |-> "Ok", addr |-> Zero32]
Misaligned(a) == [tag |-> "Misaligned", addr |-> a]
OutOfBounds(a) == [tag |-> "OutOfBounds", addr |-> a]

(***************************************************************************)
(* Byte memories (RAM, VRAM, font RAM) are sparse: a function from the     *)
(* offsets that hold a non-zero byte to that byte; every other offset      *)
(* reads 0, as in a freshly zeroed vector.                                 *)
(***************************************************************************)
EmptyMem == [x \in {} |-> 0]

MemGet(m, off) == IF off \in DOMAIN m THEN m[off] ELSE 0

MemPut(m, off, v) ==
  [x \in ((DOMAIN m) \cup {off}) \ (IF v = 0 THEN {off} ELSE {}) |->
     IF x = off THEN v ELSE m[x]]

\* addr as usize, for an address below 2^31
Offset(a) == a[1] * Half + a[2]

(***************************************************************************)
(* Address map (src/src/bus.rs)                                            *)
(***************************************************************************)
RAM_SIZE == 1048576
RAM_END == <<15, 65535>>
VRAM_BASE == <<32768, 0>>
VRAM_SIZE == 4096
FONT_BASE == <<32768, 4096>>
FONT_SIZE == 4096
MMIO_BASE == <<32768, 8448>>
MMIO_END == <<32768, 8959>>

TIMER1_CTRL == <<32768, 8448>>
TIMER1_PERIOD == <<32768, 8452>>
TIMER1_COUNT == <<32768, 8456>>
TIMER1_RESET == <<32768, 8460>>
TIMER1_ACK == <<32768, 8464>>
TIMER2_CTRL == <<32768, 8480>>
TIMER2_PERIOD == <<32768, 8484>>
TIMER2_COUNT == <<32768, 8488>>
TIMER2_RESET == <<32768, 8492>>
TIMER2_ACK == <<32768, 8496>>
UART_TX == <<32768, 8704>>
UART_STATUS == <<32768, 8708>>

\* NovaBus::in_range: addr >= base && addr < base + size
InRange(addr, base, size) ==
  LeU32(base, addr) /\ LtU32(addr, Add32(base, <<0, size>>))

InMmio(addr) == LeU32(MMIO_BASE, addr) /\ LeU32(addr, MMIO_END)

\* addr & !3
Align4(addr) == <<addr[1], addr[2] - (addr[2] % 4)>>

(***************************************************************************)
(* RAM device: bounds-checked byte array, words little-endian.             *)
(***************************************************************************)
RamRead8(ram, addr) ==
  IF Offset(addr) + 1 > RAM_SIZE
  THEN [res |-> OutOfBounds(addr), val |-> 0]
  ELSE [res |-> OkRes, val |-> MemGet(ram, Offset(addr))]

RamWrite8(ram, addr, v) ==
  IF Offset(addr) + 1 > RAM_SIZE
  THEN [res |-> OutOfBounds(addr), ram |-> ram]
  ELSE [res |-> OkRes, ram |-> MemPut(ram, Offset(addr), v)]

RamWrite32(ram, addr, w) ==
  IF Offset(addr) + 4 > RAM_SIZE
  THEN [res |-> OutOfBounds(addr), ram |-> ram]
  ELSE LET o == Offset(addr)
       IN  [res |-> OkRes,
            ram |-> MemPut(MemPut(MemPut(MemPut(ram, o, ByteOf(w, 0)),
                                         o + 1, ByteOf(w, 1)),
                                  o + 2, ByteOf(w, 2)),
                           o + 3, ByteOf(w, 3))]

(***************************************************************************)
(* VRAM and font RAM (src/src/devices/vram.rs): offsets relative to base.  *)
(***************************************************************************)
VramRead8(m, off) ==
  IF off + 1 > VRAM_SIZE
  THEN [res |-> OutOfBounds(<<0, off>>), val |-> 0]
  ELSE [res |-> OkRes, val |-> MemGet(m, off)]

VramWrite8(m, off, v) ==
  IF off + 1 > VRAM_SIZE
  THEN [res |-> OutOfBounds(<<0, off>>), mem |-> m]
  ELSE [res |-> OkRes, mem |-> MemPut(m, off, v)]

(***************************************************************************)
(* Timer (src/src/devices/timer.rs)                                        *)
(***************************************************************************)
ENABLED_BIT == 1
IRQ_ENABLED == 2
ONE_SHOT == 4

\* ctrl & flag != 0, for a single-bit flag below 2^16
HasBit(w, flag) == (w[2] \div flag) % 2 = 1

TimerNew == [ctrl |-> <<0, ENABLED_BIT + IRQ_ENABLED>>, counter |-> Zero32,
             period |-> Zero32, irq |-> FALSE]

\* mutant of TimerReset: the reset acknowledges a pending irq as well
TimerReset_Acks(t) == [t EXCEPT !.counter = Zero32, !.irq = FALSE]

TimerReset(t) == [t EXCEPT !.counter = Zero32]

TimerSetCtrl(t, v) == [t EXCEPT !.ctrl = v]

TimerSetPeriod(t, v) == [t EXCEPT !.period = v, !.counter = Zero32]

TimerAckIrq(t) == [t EXCEPT !.irq = FALSE]

\* mutant of TimerTick: the period is reached one tick late (> for >=)
TimerTick_Late(t) ==
  IF t.period = Zero32 THEN t
  ELSE IF ~HasBit(t.ctrl, ENABLED_BIT) THEN t
  ELSE LET c == Add32(t.counter, <<0, 1>>)
       IN  IF LtU32(t.period, c)
           THEN [t EXCEPT
                   !.irq = IF HasBit(t.ctrl, IRQ_ENABLED) THEN TRUE ELSE t.irq,
                   !.ctrl = IF HasBit(t.ctrl, ONE_SHOT)
                            THEN <<t.ctrl[1], t.ctrl[2] - ENABLED_BIT>>
                            ELSE t.ctrl,
                   !.counter = IF HasBit(t.ctrl, ONE_SHOT) THEN c ELSE Zero32]
           ELSE [t EXCEPT !.counter = c]

\* mutant of TimerTick: irq is a pulse, dropped by the next tick that does
\* not reach the period
TimerTick_Pulse(t) ==
  IF t.period = Zero32 THEN t
  ELSE IF ~HasBit(t.ctrl, ENABLED_BIT) THEN t
  ELSE LET c == Add32(t.counter, <<0, 1>>)
       IN  IF LeU32(t.period, c)
           THEN [t EXCEPT
                   !.irq = IF HasBit(t.ctrl, IRQ_ENABLED) THEN TRUE ELSE t.irq,
                   !.ctrl = IF HasBit(t.ctrl, ONE_SHOT)
                            THEN <<t.ctrl[1], t.ctrl[2] - ENABLED_BIT>>
                            ELSE t.ctrl,
                   !.counter = IF HasBit(t.ctrl, ONE_SHOT) THEN c ELSE Zero32]
           ELSE [t EXCEPT !.counter = c, !.irq = FALSE]

\* mutant of TimerTick: a one-shot timer is not stopped when it fires
TimerTick_NoStop(t) ==
  IF t.period = Zero32 THEN t
  ELSE IF ~HasBit(t.ctrl, ENABLED_BIT) THEN t
  ELSE LET c == Add32(t.counter, <<0, 1>>)
       IN  IF LeU32(t.period, c)
           THEN [t EXCEPT
                   !.irq = IF HasBit(t.ctrl, IRQ_ENABLED) THEN TRUE ELSE t.irq,
                   !.counter = IF HasBit(t.ctrl, ONE_SHOT) THEN c ELSE Zero32]
           ELSE [t EXCEPT !.counter = c]

TimerTick(t) ==
  IF t.period = Zero32 THEN t
  ELSE IF ~HasBit(t.ctrl, ENABLED_BIT) THEN t
  ELSE LET c == Add32(t.counter, <<0, 1>>)
       IN  IF LeU32(t.period, c)
           THEN [t EXCEPT
                   !.irq = IF HasBit(t.ctrl, IRQ_ENABLED) THEN TRUE ELSE t.irq,
                   !.ctrl = IF HasBit(t.ctrl, ONE_SHOT)
                            THEN <<t.ctrl[1], t.ctrl[2] - ENABLED_BIT>>
                            ELSE t.ctrl,
                   !.counter = IF HasBit(t.ctrl, ONE_SHOT) THEN c ELSE Zero32]
           ELSE [t EXCEPT !.counter = c]

(***************************************************************************)
(* UART (src/src/devices/uart.rs).  The backend is the pair of byte        *)
(* sequences tx (what write_byte received, oldest first) and rx (what      *)
(* read_byte has still to deliver).  rx_buffer is <<>> for None and <<b>>  *)
(* for Some(b).                                                            *)
(***************************************************************************)
TX_READY == 1
RX_AVAILABLE == 2
IRQ_ENABLE == 128

UartNew == [status |-> <<0, TX_READY>>, rx_buffer |-> <<>>, irq |-> FALSE,
            tx |-> <<>>, rx |-> <<>>]

\* mutant of UartWriteTx: the byte is put in front of what was sent before
UartWriteTx_Prepend(u, b) ==
  [u EXCEPT !.tx = <<b>> \o u.tx,
            !.status = Or32(u.status, <<0, TX_READY>>)]

\* Uart::write_tx: backend.write_byte(b); status |= TX_READY
UartWriteTx(u, b) ==
  [u EXCEPT !.tx = Append(u.tx, b),
            !.status = Or32(u.status, <<0, TX_READY>>)]

\* Uart::tick = Uart::poll_rx
UartTick(u) ==
  IF u.rx_buffer # <<>> THEN u
  ELSE IF u.rx = <<>> THEN u
  ELSE [u EXCEPT !.rx_buffer = <<Head(u.rx)>>,
                 !.rx = Tail(u.rx),
                 !.status = Or32(u.status, <<0, RX_AVAILABLE>>),
                 !.irq = IF HasBit(u.status, IRQ_ENABLE) THEN TRUE ELSE u.irq]

(***************************************************************************)
(* NovaBus (src/src/bus.rs)                                                *)
(***************************************************************************)
BusNew == [ram |-> EmptyMem, vram |-> EmptyMem, font_ram |-> EmptyMem,
           timer1 |-> TimerNew, timer2 |-> TimerNew, uart |-> UartNew]

\* NovaBus::mmio_read32: the value read, or OutOfBounds; no state changes
MmioRead32(b, addr) ==
  CASE addr = TIMER1_CTRL -> [res |-> OkRes, val |-> b.timer1.ctrl]
    [] addr = TIMER1_PERIOD -> [res |-> OkRes, val |-> b.timer1.period]
    [] addr = TIMER1_COUNT -> [res |-> OkRes, val |-> b.timer1.counter]
    [] addr = TIMER1_ACK -> [res |-> OkRes, val |-> Zero32]
    [] addr = TIMER1_RESET -> [res |-> OkRes, val |-> Zero32]
    [] addr = TIMER2_CTRL -> [res |-> OkRes, val |-> b.timer2.ctrl]
    [] addr = TIMER2_PERIOD -> [res |-> OkRes, val |-> b.timer2.period]
    [] addr = TIMER2_COUNT -> [res |-> OkRes, val |-> b.timer2.counter]
    [] addr = TIMER2_ACK -> [res |-> OkRes, val |-> Zero32]
    [] addr = TIMER2_RESET -> [res |-> OkRes, val |-> Zero32]
    [] addr = UART_STATUS -> [res |-> OkRes, val |-> b.uart.status]
    [] addr = UART_TX -> [res |-> OkRes, val |-> Zero32]
    [] OTHER -> [res |-> OutOfBounds(addr), val |-> Zero32]

\* NovaBus::mmio_write32
MmioWrite32(b, addr, value) ==
  CASE addr = TIMER1_CTRL ->
         [res |-> OkRes, bus |-> [b EXCEPT !.timer1 = TimerSetCtrl(@, value)]]
    [] addr = TIMER1_PERIOD ->
         [res |-> OkRes, bus |-> [b EXCEPT !.timer1 = TimerSetPeriod(@, value)]]
    [] addr = TIMER1_COUNT -> [res |-> OkRes, bus |-> b]
    [] addr = TIMER1_ACK ->
         [res |-> OkRes, bus |-> [b EXCEPT !.timer1 = TimerAckIrq(@)]]
    [] addr = TIMER1_RESET ->
         [res |-> OkRes, bus |-> [b EXCEPT !.timer1 = TimerReset(@)]]
    [] addr = TIMER2_CTRL ->
         [res |-> OkRes, bus |-> [b EXCEPT !.timer2 = TimerSetCtrl(@, value)]]
    [] addr = TIMER2_PERIOD ->
         [res |-> OkRes, bus |-> [b EXCEPT !.timer2 = TimerSetPeriod(@, value)]]
    [] addr = TIMER2_COUNT -> [res |-> OkRes, bus |-> b]
    [] addr = TIMER2_ACK ->
         [res |-> OkRes, bus |-> [b EXCEPT !.timer2 = TimerAckIrq(@)]]
    [] addr = TIMER2_RESET ->
         [res |-> OkRes, bus |-> [b EXCEPT !.timer2 = TimerReset(@)]]
    [] addr = UART_STATUS -> [res |-> OkRes, bus |-> b]
    [] addr = UART_TX ->
         [res |-> OkRes,
          bus |-> [b EXCEPT !.uart = UartWriteTx(@, ByteOf(value, 0))]]
    [] OTHER -> [res |-> OutOfBounds(addr), bus |-> b]

\* NovaBus::mmio_read8: byte (addr & 3) of the aligned word
MmioRead8(b, addr) ==
  LET r == MmioRead32(b, Align4(addr))
  IN  IF r.res.tag # "Ok" THEN [res |-> r.res, val |-> 0]
      ELSE [res |-> OkRes, val |-> ByteOf(r.val, addr[2] % 4)]

\* word with byte i replaced by v: (word & mask) | (v << shift)
WithByte(w, i, v) ==
  FromLeBytes(IF i = 0 THEN v ELSE ByteOf(w, 0),
              IF i = 1 THEN v ELSE ByteOf(w, 1),
              IF i = 2 THEN v ELSE ByteOf(w, 2),
              IF i = 3 THEN v ELSE ByteOf(w, 3))

\* mutant of MmioWrite8: the byte is written as a word of its own, without
\* reading the register first
MmioWrite8_NoRead(b, addr, value) ==
  IF addr = UART_TX
  THEN [res |-> OkRes, bus |-> [b EXCEPT !.uart = UartWriteTx(@, value)]]
  ELSE LET r == MmioRead32(b, Align4(addr))
       IN  IF r.res.tag # "Ok" THEN [res |-> r.res, bus |-> b]
           ELSE MmioWrite32(b, Align4(addr), WithByte(Zero32, addr[2] % 4, value))

\* NovaBus::mmio_write8
MmioWrite8(b, addr, value) ==
  IF addr = UART_TX
  THEN [res |-> OkRes, bus |-> [b EXCEPT !.uart = UartWriteTx(@, value)]]
  ELSE LET r == MmioRead32(b, Align4(addr))
       IN  IF r.res.tag # "Ok" THEN [res |-> r.res, bus |-> b]
           ELSE MmioWrite32(b, Align4(addr), WithByte(r.val, addr[2] % 4, value))

\* mutant of Load8: an address in no region reads as 0
Load8_OpenBus(b, addr) ==
  IF LeU32(addr, RAM_END) THEN RamRead8(b.ram, addr)
  ELSE IF InRange(addr, VRAM_BASE, VRAM_SIZE)
       THEN VramRead8(b.vram, Offset(Sub32(addr, VRAM_BASE)))
  ELSE IF InRange(addr, FONT_BASE, FONT_SIZE)
       THEN VramRead8(b.font_ram, Offset(Sub32(addr, FONT_BASE)))
  ELSE IF InMmio(addr) THEN MmioRead8(b, addr)
  ELSE [res |-> OkRes, val |-> 0]

\* NovaBus::load8
Load8(b, addr) ==
  IF LeU32(addr, RAM_END) THEN RamRead8(b.ram, addr)
  ELSE IF InRange(addr, VRAM_BASE, VRAM_SIZE)
       THEN VramRead8(b.vram, Offset(Sub32(addr, VRAM_BASE)))
  ELSE IF InRange(addr, FONT_BASE, FONT_SIZE)
       THEN VramRead8(b.font_ram, Offset(Sub32(addr, FONT_BASE)))
  ELSE IF InMmio(addr) THEN MmioRead8(b, addr)
  ELSE [res |-> OutOfBounds(addr), val |-> 0]

\* NovaBus::load32
Load32(b, addr) ==
  IF addr[2] % 4 # 0 THEN [res |-> Misaligned(addr), val |-> Zero32]
  ELSE IF LeU32(addr, RAM_END)
       THEN IF LtU32(RAM_END, Add32(addr, <<0, 3>>))
            THEN [res |-> OutOfBounds(Add32(addr, <<0, 3>>)), val |-> Zero32]
            ELSE LET b0 == RamRead8(b.ram, addr)
                     b1 == RamRead8(b.ram, Add32(addr, <<0, 1>>))
                     b2 == RamRead8(b.ram, Add32(addr, <<0, 2>>))
                     b3 == RamRead8(b.ram, Add32(addr, <<0, 3>>))
                 IN  IF b0.res.tag # "Ok" THEN [res |-> b0.res, val |-> Zero32]
                     ELSE IF b1.res.tag # "Ok" THEN [res |-> b1.res, val |-> Zero32]
                     ELSE IF b2.res.tag # "Ok" THEN [res |-> b2.res, val |-> Zero32]
                     ELSE IF b3.res.tag # "Ok" THEN [res |-> b3.res, val |-> Zero32]
                     ELSE [res |-> OkRes,
                           val |-> FromLeBytes(b0.val, b1.val, b2.val, b3.val)]
  ELSE IF InMmio(addr) THEN MmioRead32(b, addr)
  ELSE [res |-> OutOfBounds(addr), val |-> Zero32]

\* NovaBus::store8
Store8(b, addr, value) ==
  IF LeU32(addr, RAM_END)
  THEN LET r == RamWrite8(b.ram, addr, value)
       IN  [res |-> r.res, bus |-> [b EXCEPT !.ram = r.ram]]
  ELSE IF InRange(addr, VRAM_BASE, VRAM_SIZE)
       THEN LET r == VramWrite8(b.vram, Offset(Sub32(addr, VRAM_BASE)), value)
            IN  [res |-> r.res, bus |-> [b EXCEPT !.vram = r.mem]]
  ELSE IF InRange(addr, FONT_BASE, FONT_SIZE)
       THEN LET r == VramWrite8(b.font_ram, Offset(Sub32(addr, FONT_BASE)), value)
            IN  [res |-> r.res, bus |-> [b EXCEPT !.font_ram = r.mem]]
  ELSE IF InMmio(addr) THEN MmioWrite8(b, addr, value)
  ELSE [res |-> OutOfBounds(addr), bus |-> b]

\* mutant of Store32: the alignment check comes after the RAM arm
Store32_RamFirst(b, addr, value) ==
  IF LeU32(addr, RAM_END)
  THEN LET r == RamWrite32(b.ram, addr, value)
       IN  [res |-> r.res, bus |-> [b EXCEPT !.ram = r.ram]]
  ELSE IF addr[2] % 4 # 0 THEN [res |-> Misaligned(addr), bus |-> b]
  ELSE IF InMmio(addr)
       THEN LET r == MmioWrite32(b, addr, value)
            IN  IF r.res.tag # "Ok" THEN r
                ELSE [res |-> OutOfBounds(addr), bus |-> r.bus]
  ELSE [res |-> OutOfBounds(addr), bus |-> b]

\* NovaBus::store32.  The MMIO arm performs the device write and, when that
\* succeeded, falls through to the final Err(OutOfBounds(addr)).
Store32(b, addr, value) ==
  IF addr[2] % 4 # 0 THEN [res |-> Misaligned(addr), bus |-> b]
  ELSE IF LeU32(addr, RAM_END)
       THEN LET r == RamWrite32(b.ram, addr, value)
            IN  [res |-> r.res, bus |-> [b EXCEPT !.ram = r.ram]]
  ELSE IF InMmio(addr)
       THEN LET r == MmioWrite32(b, addr, value)
            IN  IF r.res.tag # "Ok" THEN r
                ELSE [res |-> OutOfBounds(addr), bus |-> r.bus]
  ELSE [res |-> OutOfBounds(addr), bus |-> b]

(***************************************************************************)
(* ISA constants (src/src/cpu/isa.rs, src/src/cpu.rs)                      *)
(***************************************************************************)
ILLEGAL_OP == 0
TIMER1_IRQ == 256
TIMER2_IRQ == 257
UART_IRQ == 258

OP_ADD == 0
OP_SUB == 1
OP_AND == 2
OP_OR == 3
OP_XOR == 4
OP_SLT == 5
OP_SLTU == 6
OP_SHL == 7
OP_SHR == 8
OP_SAR == 9
OP_ADDI == 16
OP_ANDI == 17
OP_ORI == 18
OP_XORI == 19
OP_SLTI == 20
OP_SLTIU == 21
OP_LUI == 22
OP_LW == 24
OP_SW == 25
OP_LB == 26
OP_SB == 27
OP_BEQ == 32
OP_BNE == 33
OP_BLT == 34
OP_BGE == 35
OP_J == 40
OP_JAL == 41
OP_JR == 42
OP_JALR == 43
OP_NOP == 62
OP_HALT == 63

SR_IE == 16
LINK_REGISTER == 31
RESET_VECTOR == <<0, 0>>
EXCEPTION_VECTOR == <<0, 256>>

(***************************************************************************)
(* Cpu (src/src/cpu.rs)                                                    *)
(***************************************************************************)
CpuNew == [regs |-> [i \in 0..31 |-> Zero32], pc |-> RESET_VECTOR,
           sr |-> Zero32, epc |-> Zero32, cause |-> Zero32, halted |-> FALSE]

\* Instruction::decode
Decode(raw) ==
  [opcode |-> raw[1] \div 1024,
   rd |-> (raw[1] \div 32) % 32,
   rs |-> raw[1] % 32,
   rt |-> raw[2] \div 2048,
   imm16 |-> raw[2],
   target |-> <<raw[1] % 1024, raw[2]>>]

NoIrq == [timer1 |-> FALSE, timer2 |-> FALSE, uart |-> FALSE]

\* mutant of IrqCheck: the lines are tested in the order UART, Timer2, Timer1
IrqCheck_Reversed(irq) ==
  IF irq.uart THEN [take |-> TRUE, cause |-> <<0, UART_IRQ>>]
  ELSE IF irq.timer2 THEN [take |-> TRUE, cause |-> <<0, TIMER2_IRQ>>]
  ELSE IF irq.timer1 THEN [take |-> TRUE, cause |-> <<0, TIMER1_IRQ>>]
  ELSE [take |-> FALSE, cause |-> Zero32]

\* The interrupt check of Cpu::step: which exception, if any, the snapshot
\* selects.
IrqCheck(irq) ==
  IF irq.timer1 THEN [take |-> TRUE, cause |-> <<0, TIMER1_IRQ>>]
  ELSE IF irq.timer2 THEN [take |-> TRUE, cause |-> <<0, TIMER2_IRQ>>]
  ELSE IF irq.uart THEN [take |-> TRUE, cause |-> <<0, UART_IRQ>>]
  ELSE [take |-> FALSE, cause |-> Zero32]

\* mutant of ForceR0: the write-back leaves regs[0] as the instruction set it
ForceR0_Skip(regs) == regs

\* "Ensure R0 is always zero": next_regs[0] = 0 before the commit
ForceR0(regs) == [regs EXCEPT ![0] = Zero32]

\* The commit at the end of Cpu::step
Commit(regs, pc, sr, epc, cause, halted) ==
  [regs |-> ForceR0(regs), pc |-> pc, sr |-> sr, epc |-> epc,
   cause |-> cause, halted |-> halted]

\* mutant of TakeException: EPC is the address after the interrupted word
TakeException_EpcNext(c, exc_cause, exc_pc) ==
  Commit(c.regs, EXCEPTION_VECTOR, And32(c.sr, Not32(<<0, SR_IE>>)),
         Add32(exc_pc, <<0, 4>>), exc_cause, c.halted)

\* "Handle any exceptions": the state committed when an interrupt is taken
TakeException(c, exc_cause, exc_pc) ==
  Commit(c.regs, EXCEPTION_VECTOR, And32(c.sr, Not32(<<0, SR_IE>>)),
         exc_pc, exc_cause, c.halted)

\* next_pc.wrapping_add(4)
NextPc(pc) == Add32(pc, <<0, 4>>)

\* mutant of BranchTarget: the displacement is applied to the branch's own PC
BranchTarget_FromPc(pc, imm16) == Add32(pc, Shl32(SignExtend16(imm16), 2))

\* mutant of BranchTarget: the displacement counts bytes, not words
BranchTarget_Unshifted(pc, imm16) ==
  Add32(Add32(pc, <<0, 4>>), SignExtend16(imm16))

\* taken branch: next_pc.wrapping_add(4).wrapping_add(imm.wrapping_shl(2))
BranchTarget(pc, imm16) ==
  Add32(Add32(pc, <<0, 4>>), Shl32(SignExtend16(imm16), 2))

\* mutant of JumpTarget: the region bits of the PC are dropped
JumpTarget_NoRegion(pc, target) == Shl32(target, 2)

\* (next_pc & 0xF000_0000) | (instr.target.wrapping_shl(2))
JumpTarget(pc, target) ==
  Or32(And32(pc, <<61440, 0>>), Shl32(target, 2))

\* the branch conditions, on regs[rd] and regs[rs]
BranchTaken(op, rd_val, rs_val) ==
  CASE op = OP_BEQ -> rd_val = rs_val
    [] op = OP_BNE -> rd_val # rs_val
    [] op = OP_BLT -> LtS32(rd_val, rs_val)
    [] op = OP_BGE -> ~LtS32(rd_val, rs_val)

\* the register-register ALU results
AluReg(op, rs_val, rt_val) ==
  CASE op = OP_ADD -> Add32(rs_val, rt_val)
    [] op = OP_SUB -> Sub32(rs_val, rt_val)
    [] op = OP_AND -> And32(rs_val, rt_val)
    [] op = OP_OR -> Or32(rs_val, rt_val)
    [] op = OP_XOR -> Xor32(rs_val, rt_val)
    [] op = OP_SLT -> IF LtS32(rs_val, rt_val) THEN <<0, 1>> ELSE Zero32
    [] op = OP_SLTU -> IF LtU32(rs_val, rt_val) THEN <<0, 1>> ELSE Zero32
    [] op = OP_SHL -> Shl32(rs_val, rt_val[2] % 32)
    [] op = OP_SHR -> Shr32(rs_val, rt_val[2] % 32)
    [] op = OP_SAR -> Sar32(rs_val, rt_val[2] % 32)

\* the immediate ALU results
AluImm(op, rs_val, imm16) ==
  CASE op = OP_ADDI -> Add32(rs_val, SignExtend16(imm16))
    [] op = OP_ANDI -> And32(rs_val, ZeroExtend(imm16))
    [] op = OP_ORI -> Or32(rs_val, ZeroExtend(imm16))
    [] op = OP_XORI -> Xor32(rs_val, ZeroExtend(imm16))
    [] op = OP_SLTI ->
         IF LtS32(rs_val, SignExtend16(imm16)) THEN <<0, 1>> ELSE Zero32
    [] op = OP_SLTIU ->
         IF LtU32(rs_val, ZeroExtend(imm16)) THEN <<0, 1>> ELSE Zero32
    [] op = OP_LUI -> Shl32(ZeroExtend(imm16), 16)

AluRegOps == {OP_ADD, OP_SUB, OP_AND, OP_OR, OP_XOR, OP_SLT, OP_SLTU,
              OP_SHL, OP_SHR, OP_SAR}
AluImmOps == {OP_ADDI, OP_ANDI, OP_ORI, OP_XORI, OP_SLTI, OP_SLTIU, OP_LUI}
BranchOps == {OP_BEQ, OP_BNE, OP_BLT, OP_BGE}

\* mutant of DataError: the PC is advanced although the access failed
DataError_Advance(c, b, res) ==
  [cpu |-> [c EXCEPT !.pc = Add32(c.pc, <<0, 4>>)], bus |-> b, res |-> res]

\* a failed data access: `?` returns the error before anything is committed
DataError(c, b, res) == [cpu |-> c, bus |-> b, res |-> res]

\* mutant of Jalr: the jump target is read after the link was written
Jalr_ReadAfterLink(c, i) ==
  LET regs == [c.regs EXCEPT ![i.rd] = Add32(c.pc, <<0, 4>>)]
  IN  Commit(regs, regs[i.rs], c.sr, c.epc, c.cause, c.halted)

\* JALR: rs is read from the registers as they were, the link goes to rd
Jalr(c, i) ==
  Commit([c.regs EXCEPT ![i.rd] = NextPc(c.pc)], c.regs[i.rs],
         c.sr, c.epc, c.cause, c.halted)

\* HALT: next_halted = true, the PC is not advanced
Halt(c) == Commit(c.regs, c.pc, c.sr, c.epc, c.cause, TRUE)

\* mutant of IllegalOp: EPC records the address after the offending word
IllegalOp_EpcNext(c) ==
  Commit(c.regs, EXCEPTION_VECTOR, c.sr, Add32(c.pc, <<0, 4>>),
         <<0, ILLEGAL_OP>>, c.halted)

\* the `_` arm: illegal opcode
IllegalOp(c) ==
  Commit(c.regs, EXCEPTION_VECTOR, c.sr, c.pc, <<0, ILLEGAL_OP>>, c.halted)

\* The match on instr.opcode of Cpu::step, with the commit that follows it.
Execute(c, b, i) ==
  LET op == i.opcode
      ea == Add32(c.regs[i.rs], SignExtend16(i.imm16))
      seq(regs) == Commit(regs, NextPc(c.pc), c.sr, c.epc, c.cause, c.halted)
      ok(cc) == [cpu |-> cc, bus |-> b, res |-> OkRes]
  IN  CASE op \in AluRegOps ->
             ok(seq([c.regs EXCEPT
                       ![i.rd] = AluReg(op, c.regs[i.rs], c.regs[i.rt])]))
        [] op \in AluImmOps ->
             ok(seq([c.regs EXCEPT
                       ![i.rd] = AluImm(op, c.regs[i.rs], i.imm16)]))
        [] op = OP_LW ->
             LET r == Load32(b, ea)
             IN  IF r.res.tag # "Ok" THEN DataError(c, b, r.res)
                 ELSE ok(seq([c.regs EXCEPT ![i.rd] = r.val]))
        [] op = OP_SW ->
             LET r == Store32(b, ea, c.regs[i.rd])
             IN  IF r.res.tag # "Ok" THEN DataError(c, r.bus, r.res)
                 ELSE [cpu |-> seq(c.regs), bus |-> r.bus, res |-> OkRes]
        [] op = OP_LB ->
             LET r == Load8(b, ea)
             IN  IF r.res.tag # "Ok" THEN DataError(c, b, r.res)
                 ELSE ok(seq([c.regs EXCEPT ![i.rd] = SignExtend8(r.val)]))
        [] op = OP_SB ->
             LET r == Store8(b, ea, ByteOf(c.regs[i.rd], 0))
             IN  IF r.res.tag # "Ok" THEN DataError(c, r.bus, r.res)
                 ELSE [cpu |-> seq(c.regs), bus |-> r.bus, res |-> OkRes]
        [] op \in BranchOps ->
             ok(Commit(c.regs,
                       IF BranchTaken(op, c.regs[i.rd], c.regs[i.rs])
                       THEN BranchTarget(c.pc, i.imm16)
                       ELSE NextPc(c.pc),
                       c.sr, c.epc, c.cause, c.halted))
        [] op = OP_J ->
             ok(Commit(c.regs, JumpTarget(c.pc, i.target),
                       c.sr, c.epc, c.cause, c.halted))
        [] op = OP_JAL ->
             ok(Commit([c.regs EXCEPT ![LINK_REGISTER] = NextPc(c.pc)],
                       JumpTarget(c.pc, i.target),
                       c.sr, c.epc, c.cause, c.halted))
        [] op = OP_JR ->
             ok(Commit(c.regs, c.regs[i.rs], c.sr, c.epc, c.cause, c.halted))
        [] op = OP_JALR -> ok(Jalr(c, i))
        [] op = OP_NOP -> ok(seq(c.regs))
        [] op = OP_HALT -> ok(Halt(c))
        [] OTHER -> ok(IllegalOp(c))

\* mutant of HaltedStep: a halted CPU that is stepped takes a pending interrupt
HaltedStep_Wakes(c, b) ==
  [cpu |-> [c EXCEPT !.halted = FALSE], bus |-> b, res |-> OkRes]

\* the early return of a halted CPU
HaltedStep(c, b) == [cpu |-> c, bus |-> b, res |-> OkRes]

\* a failed fetch: bus.read32(self.pc)? returns the error
FetchError(c, b, res) == [cpu |-> c, bus |-> b, res |-> res]

\* mutant of CpuStep: the interrupt check is gated on SR.IE
CpuStep_GatedOnIE(c, b, irq) ==
  IF c.halted THEN HaltedStep(c, b)
  ELSE LET f == Load32(b, c.pc)
       IN  IF f.res.tag # "Ok" THEN FetchError(c, b, f.res)
           ELSE LET i == Decode(f.val)
                    x == IrqCheck(irq)
                IN  IF x.take /\ HasBit(c.sr, SR_IE)
                    THEN [cpu |-> TakeException(c, x.cause, c.pc),
                          bus |-> b, res |-> OkRes]
                    ELSE Execute(c, b, i)

\* mutant of CpuStep: the interrupt check comes before the fetch
CpuStep_IrqFirst(c, b, irq) ==
  IF c.halted THEN HaltedStep(c, b)
  ELSE IF IrqCheck(irq).take
       THEN [cpu |-> TakeException(c, IrqCheck(irq).cause, c.pc),
             bus |-> b, res |-> OkRes]
       ELSE LET f == Load32(b, c.pc)
            IN  IF f.res.tag # "Ok" THEN FetchError(c, b, f.res)
                ELSE Execute(c, b, Decode(f.val))

\* Cpu::step(bus, irq): the CPU and bus afterwards, and the value returned
CpuStep(c, b, irq) ==
  IF c.halted THEN HaltedStep(c, b)
  ELSE LET f == Load32(b, c.pc)
       IN  IF f.res.tag # "Ok" THEN FetchError(c, b, f.res)
           ELSE LET i == Decode(f.val)
                    x == IrqCheck(irq)
                IN  IF x.take
                    THEN [cpu |-> TakeException(c, x.cause, c.pc),
                          bus |-> b, res |-> OkRes]
                    ELSE Execute(c, b, i)

(***************************************************************************)
(* Machine (src/src/machine.rs)                                            *)
(***************************************************************************)
\* the IrqLines snapshot Machine::step takes after the ticks
Snapshot(b) ==
  [timer1 |-> b.timer1.irq, timer2 |-> b.timer2.irq, uart |-> b.uart.irq]

\* mutant of TickDevices: Timer1 is left out of the ticks
TickDevices_SkipTimer1(b) ==
  [b EXCEPT !.timer2 = TimerTick(@), !.uart = UartTick(@)]

\* the three ticks that open Machine::step
TickDevices(b) ==
  [b EXCEPT !.timer1 = TimerTick(@), !.timer2 = TimerTick(@),
            !.uart = UartTick(@)]

(***************************************************************************)
(* Inputs: the instruction words the host writes, the IRQ snapshots a      *)
(* caller of Cpu::step passes, and the timer periods the host sets.        *)
(***************************************************************************)
\* enc_i of the assembler: op, rd, rs and a 16-bit field
EncI(op, rd, rs, imm) == <<op * 1024 + rd * 32 + rs, imm>>

\* a register-register word: rt sits in bits 15..11
EncR(op, rd, rs, rt) == EncI(op, rd, rs, rt * 2048)

\* J-type: opcode and 26-bit target
EncJ(op, thi, tlo) == <<op * 1024 + thi, tlo>>

InstrWords ==
  {EncR(op, 1, 2, 1) : op \in AluRegOps}
  \cup {EncR(OP_OR, 0, 2, 2)}
  \cup {EncI(OP_ADDI, 1, 0, 65535), EncI(OP_ADDI, 1, 0, 2),
        EncI(OP_ANDI, 1, 2, 255), EncI(OP_ORI, 1, 2, 8452),
        EncI(OP_XORI, 1, 1, 65535), EncI(OP_SLTI, 1, 2, 0),
        EncI(OP_SLTIU, 1, 2, 1), EncI(OP_LUI, 2, 0, 32768)}
  \cup {EncI(OP_LW, 1, 0, 0), EncI(OP_LW, 1, 0, 2),
        EncI(OP_LW, 1, 2, 8448), EncI(OP_LW, 1, 2, 0),
        EncI(OP_SW, 1, 0, 16), EncI(OP_SW, 2, 2, 8452),
        EncI(OP_SW, 1, 2, 8704), EncI(OP_SW, 1, 0, 1),
        EncI(OP_LB, 1, 0, 3), EncI(OP_LB, 1, 2, 8448),
        EncI(OP_LB, 1, 2, 12288),
        EncI(OP_SB, 1, 0, 17), EncI(OP_SB, 2, 2, 8704),
        EncI(OP_SB, 1, 2, 8448)}
  \cup {EncI(OP_BEQ, 1, 0, 3), EncI(OP_BEQ, 0, 0, 65534),
        EncI(OP_BNE, 1, 0, 3), EncI(OP_BLT, 1, 0, 3),
        EncI(OP_BGE, 1, 0, 3), EncI(OP_BGE, 0, 1, 32768)}
  \cup {EncJ(OP_J, 0, 64), EncJ(OP_J, 1023, 65535), EncJ(OP_JAL, 0, 4),
        EncI(OP_JR, 0, 31, 0), EncI(OP_JR, 0, 1, 0),
        EncI(OP_JALR, 1, 1, 0), EncI(OP_JALR, 2, 31, 0)}
  \cup {EncI(OP_NOP, 0, 0, 0), EncI(OP_HALT, 0, 0, 0), EncI(10, 1, 1, 7)}

\* the words of the interrupt and halt runs: HALT, an illegal opcode, words
\* with destination r0, a misaligned load, a jump out of RAM
IrqWords ==
  {EncI(OP_HALT, 0, 0, 0), EncI(61, 31, 31, 65535), EncI(OP_ADDI, 0, 0, 5),
   EncI(OP_LW, 0, 0, 0), EncI(OP_JALR, 0, 0, 0), EncI(OP_LW, 1, 0, 2),
   EncJ(OP_J, 1023, 65535)}

IrqSnapshots == [timer1 : BOOLEAN, timer2 : BOOLEAN, uart : BOOLEAN]

Periods == {<<0, 1>>, <<0, 2>>}

(***************************************************************************)
(* State.  cpu and bus are the two fields of Machine.  last describes the  *)
(* most recent step: the CPU and the bus handed to Cpu::step, the bus      *)
(* before the step's ticks, the snapshot, the value returned; fresh says   *)
(* that nothing has happened since that step; prev is the step before it.  *)
(***************************************************************************)
NoStep == [kind |-> "none", pc |-> Zero32, raw |-> Zero32, executed |-> FALSE]

Init ==
  /\ cpu = CpuNew
  /\ bus = BusNew
  /\ last = [fresh |-> FALSE, kind |-> "none", cpu |-> CpuNew, bus |-> BusNew,
             bus0 |-> BusNew, irq |-> NoIrq, res |-> OkRes, prev |-> NoStep]
  /\ nloads = 0
  /\ nsteps = 0

\* what a step did, for the step after it: the PC it started at, the word
\* it fetched, and whether that word was executed
Summary(kind, c, b, irq) ==
  LET f == Load32(b, c.pc)
  IN  [kind |-> kind, pc |-> c.pc, raw |-> f.val,
       executed |-> ~c.halted /\ f.res.tag = "Ok" /\ ~IrqCheck(irq).take]

\* Machine::load_program(base, [word]) with base the address the CPU
\* fetches next; the host writes at most one word ahead of each step
LoadProgram(word) ==
  /\ nloads <= nsteps
  /\ LET r == RamWrite32(bus.ram, cpu.pc, word)
     IN  /\ LeU32(cpu.pc, RAM_END)
         /\ r.res.tag = "Ok"
         /\ bus' = [bus EXCEPT !.ram = r.ram]
  /\ nloads' = nloads + 1
  /\ last' = [last EXCEPT !.fresh = FALSE]
  /\ UNCHANGED <<cpu, nsteps>>

\* the host sets a timer's period (Timer::set_period) before it loads and
\* runs anything
ConfigureTimer1(p) ==
  /\ nsteps = 0 /\ nloads = 0
  /\ bus' = [bus EXCEPT !.timer1 = TimerSetPeriod(@, p)]
  /\ last' = [last EXCEPT !.fresh = FALSE]
  /\ UNCHANGED <<cpu, nloads, nsteps>>

ConfigureTimer2(p) ==
  /\ nsteps = 0 /\ nloads = 0
  /\ bus' = [bus EXCEPT !.timer2 = TimerSetPeriod(@, p)]
  /\ last' = [last EXCEPT !.fresh = FALSE]
  /\ UNCHANGED <<cpu, nloads, nsteps>>

\* Cpu::step called with a snapshot of the caller's choice
CpuStepCall(irq) ==
  /\ LET r == CpuStep(cpu, bus, irq)
     IN  /\ cpu' = r.cpu
         /\ bus' = r.bus
         /\ last' = [fresh |-> TRUE, kind |-> "cpu", cpu |-> cpu, bus |-> bus,
                     bus0 |-> bus, irq |-> irq, res |-> r.res,
                     prev |-> [kind |-> last.kind, pc |-> last.cpu.pc,
                               raw |-> Load32(last.bus, last.cpu.pc).val,
                               executed |->
                                  Summary(last.kind, last.cpu, last.bus,
                                          last.irq).executed]]
  /\ nsteps' = nsteps + 1
  /\ UNCHANGED nloads

\* mutant of MachineStep: the IRQ lines are sampled before the devices tick
MachineStep_SnapshotFirst ==
  /\ LET ticked == TickDevices(bus)
         irq == Snapshot(bus)
         r == CpuStep(cpu, ticked, irq)
     IN  /\ cpu' = r.cpu
         /\ bus' = r.bus
         /\ last' = [fresh |-> TRUE, kind |-> "machine", cpu |-> cpu,
                     bus |-> ticked, bus0 |-> bus, irq |-> irq, res |-> r.res,
                     prev |-> [kind |-> last.kind, pc |-> last.cpu.pc,
                               raw |-> Load32(last.bus, last.cpu.pc).val,
                               executed |->
                                  Summary(last.kind, last.cpu, last.bus,
                                          last.irq).executed]]
  /\ nsteps' = nsteps + 1
  /\ UNCHANGED nloads

\* Machine::step: tick the devices, snapshot the IRQ lines, step the CPU and
\* drop the value it returns
MachineStep ==
  /\ LET ticked == TickDevices(bus)
         irq == Snapshot(ticked)
         r == CpuStep(cpu, ticked, irq)
     IN  /\ cpu' = r.cpu
         /\ bus' = r.bus
         /\ last' = [fresh |-> TRUE, kind |-> "machine", cpu |-> cpu,
                     bus |-> ticked, bus0 |-> bus, irq |-> irq, res |-> r.res,
                     prev |-> [kind |-> last.kind, pc |-> last.cpu.pc,
                               raw |-> Load32(last.bus, last.cpu.pc).val,
                               executed |->
                                  Summary(last.kind, last.cpu, last.bus,
                                          last.irq).executed]]
  /\ nsteps' = nsteps + 1
  /\ UNCHANGED nloads

\* Program execution: any of the instruction words, no IRQ line asserted.
Next ==
  \/ nloads < MaxLoads /\ \E w \in InstrWords : LoadProgram(w)
  \/ nsteps < MaxSteps /\ CpuStepCall(NoIrq)

Spec == Init /\ [][Next]_vars

\* Interrupts and halting: every IRQ snapshot, Machine::step with configured
\* timers, and a few instruction words.
NextIrq ==
  \/ nloads < MaxIrqLoads /\ \E w \in IrqWords : LoadProgram(w)
  \/ \E p \in Periods : ConfigureTimer1(p)
  \/ \E p \in Periods : ConfigureTimer2(p)
  \/ nsteps < MaxIrqSteps /\ \E irq \in IrqSnapshots : CpuStepCall(irq)
  \/ nsteps < MaxIrqSteps /\ MachineStep

SpecIrq == Init /\ [][NextIrq]_vars

\* Jumps from every region: the host stores a J or JAL word in Timer1's
\* PERIOD register and the program jumps to that register's address.
JumpWords ==
  {EncI(OP_LUI, 2, 0, 32768), EncI(OP_ORI, 2, 2, 8452), EncI(OP_JR, 0, 2, 0),
   EncJ(OP_J, 0, 64), EncJ(OP_JAL, 0, 4), EncJ(OP_J, 1023, 65535)}

JumpPeriods == {EncJ(OP_J, 0, 64), EncJ(OP_JAL, 513, 2)}

NextJump ==
  \/ nloads < MaxJumpLoads /\ \E w \in JumpWords : LoadProgram(w)
  \/ \E p \in JumpPeriods : ConfigureTimer1(p)
  \/ nsteps < MaxJumpSteps /\ CpuStepCall(NoIrq)

SpecJump == Init /\ [][NextJump]_vars

\* Illegal opcodes: every opcode value the match of Cpu::step has no arm for,
\* after a NOP or an ADDI that moves the PC and fills a register.
DefinedOps ==
  AluRegOps \cup AluImmOps \cup BranchOps
  \cup {OP_LW, OP_SW, OP_LB, OP_SB, OP_J, OP_JAL, OP_JR, OP_JALR,
        OP_NOP, OP_HALT}

IllegalWords ==
  {EncI(op, 1, 1, 7) : op \in (0..63) \ DefinedOps}
  \cup {EncI(OP_NOP, 0, 0, 0), EncI(OP_ADDI, 1, 0, 65535)}

NextIllegal ==
  \/ nloads < MaxIllegalLoads /\ \E w \in IllegalWords : LoadProgram(w)
  \/ nsteps < MaxIllegalSteps /\ CpuStepCall(NoIrq)

SpecIllegal == Init /\ [][NextIllegal]_vars

\* A timer on its own: the host sets Timer1's period, then calls Timer::tick
\* and acknowledges every IRQ before the next tick.  nsteps counts the ticks.
TimerPeriods == {<<0, n>> : n \in 1..MaxPeriod}

TimerTickCall ==
  /\ ~bus.timer1.irq
  /\ bus' = [bus EXCEPT !.timer1 = TimerTick(@)]
  /\ last' = [last EXCEPT !.fresh = TRUE, !.kind = "tick", !.bus0 = bus]
  /\ nsteps' = nsteps + 1
  /\ UNCHANGED <<cpu, nloads>>

TimerAckCall ==
  /\ bus.timer1.irq
  /\ bus' = [bus EXCEPT !.timer1 = TimerAckIrq(@)]
  /\ last' = [last EXCEPT !.fresh = FALSE]
  /\ UNCHANGED <<cpu, nloads, nsteps>>

NextTimer ==
  \/ \E p \in TimerPeriods : ConfigureTimer1(p)
  \/ nsteps < MaxTicks /\ TimerTickCall
  \/ TimerAckCall

SpecTimer == Init /\ [][NextTimer]_vars

\* The UART on its own: byte and word stores to UART TX through the bus,
\* direct Uart::write_tx calls, bytes arriving at the backend and Uart::tick
\* calls in between.  last.written is the sequence of low bytes written so
\* far; nsteps counts the writes and nloads the bytes that arrived.
TxBytes == {0, 65, 255}
TxWords == {<<0, 322>>, <<65535, 65347>>}
RxBytes == {13, 200}

Written == IF last.kind = "uart" THEN last.written ELSE <<>>

UartRecord(b, res, byte) ==
  [fresh |-> TRUE, kind |-> "uart", cpu |-> cpu, bus |-> b, bus0 |-> b,
   irq |-> NoIrq, res |-> res, prev |-> NoStep,
   written |-> Append(Written, byte)]

UartStore8(v) ==
  /\ LET r == Store8(bus, UART_TX, v)
     IN  bus' = r.bus /\ last' = UartRecord(bus, r.res, v)
  /\ nsteps' = nsteps + 1
  /\ UNCHANGED <<cpu, nloads>>

UartStore32(w) ==
  /\ LET r == Store32(bus, UART_TX, w)
     IN  bus' = r.bus /\ last' = UartRecord(bus, r.res, w[2] % 256)
  /\ nsteps' = nsteps + 1
  /\ UNCHANGED <<cpu, nloads>>

UartWriteTxCall(v) ==
  /\ bus' = [bus EXCEPT !.uart = UartWriteTx(@, v)]
  /\ last' = UartRecord(bus, OkRes, v)
  /\ nsteps' = nsteps + 1
  /\ UNCHANGED <<cpu, nloads>>

\* the backend receives a byte from outside
UartRxArrive(v) ==
  /\ bus' = [bus EXCEPT !.uart.rx = Append(@, v)]
  /\ nloads' = nloads + 1
  /\ UNCHANGED <<cpu, last, nsteps>>

UartTickCall ==
  /\ bus.uart.rx # <<>>
  /\ bus' = [bus EXCEPT !.uart = UartTick(@)]
  /\ UNCHANGED <<cpu, last, nloads, nsteps>>

NextUart ==
  \/ nsteps < MaxTx /\ \E v \in TxBytes : UartStore8(v)
  \/ nsteps < MaxTx /\ \E w \in TxWords : UartStore32(w)
  \/ nsteps < MaxTx /\ \E v \in TxBytes : UartWriteTxCall(v)
  \/ nloads < MaxRx /\ \E v \in RxBytes : UartRxArrive(v)
  \/ UartTickCall

SpecUart == Init /\ [][NextUart]_vars

\* Whole programs: the host sets Timer1's period (or leaves it 0), loads one
\* image with Machine::load_program and calls Machine::step.
RECURSIVE LoadWords(_, _, _)
LoadWords(ram, base, words) ==
  IF words = <<>> THEN ram
  ELSE LoadWords(RamWrite32(ram, base, Head(words)).ram,
                 Add32(base, <<0, 4>>), Tail(words))

\* HALT alone at the exception vector
TimerImage == [base |-> EXCEPTION_VECTOR, words |-> <<EncI(OP_HALT, 0, 0, 0)>>]

\* NOP alone at the exception vector
NopImage == [base |-> EXCEPTION_VECTOR, words |-> <<EncI(OP_NOP, 0, 0, 0)>>]

RunImages == {TimerImage, NopImage}

RunPeriods == {<<0, n>> : n \in 1..6}

LoadImage(img) ==
  /\ nloads = 0 /\ nsteps = 0
  /\ bus' = [bus EXCEPT !.ram = LoadWords(bus.ram, img.base, img.words)]
  /\ nloads' = 1
  /\ last' = [last EXCEPT !.fresh = FALSE]
  /\ UNCHANGED <<cpu, nsteps>>

NextRun ==
  \/ \E p \in RunPeriods : ConfigureTimer1(p)
  \/ \E img \in RunImages : LoadImage(img)
  \/ nsteps < MaxRunSteps /\ MachineStep

SpecRun == Init /\ [][NextRun]_vars

(***************************************************************************)
(* Vocabulary of the properties: what the most recent step was handed and  *)
(* what it did.                                                            *)
(***************************************************************************)
\* the outcome of the fetch of the most recent step
Fetched == Load32(last.bus, last.cpu.pc)

\* the fields of the word it fetched
LastInstr == Decode(Fetched.val)

\* some IRQ line was asserted in its snapshot
IrqAsserted == last.irq.timer1 \/ last.irq.timer2 \/ last.irq.uart

\* it was a step of a running CPU whose fetch succeeded
Ran == last.fresh /\ ~last.cpu.halted /\ Fetched.res.tag = "Ok"

\* it executed the fetched word
Executed == Ran /\ ~IrqAsserted

\* it entered the interrupt
Interrupted == Ran /\ IrqAsserted

\* a 16-bit field as a signed number
Disp(imm16) == IF imm16 >= 32768 THEN imm16 - 65536 ELSE imm16

\* a word as a signed 32-bit number
Signed(w) ==
  IF w[1] >= 32768 THEN (w[1] - 65536) * 65536 + w[2] ELSE w[1] * 65536 + w[2]

\* a number of small magnitude as a word, two's complement
IntToWord(k) ==
  IF k >= 0 THEN <<k \div 65536, k % 65536>>
  ELSE Sub32(Zero32, <<(-k) \div 65536, (-k) % 65536>>)

\* pc + k (mod 2^32) for a number k
PcPlus(pc, k) == Add32(pc, IntToWord(k))

\* the effective address rs + S(imm16) of the most recent step's word
EffAddr == Add32(last.cpu.regs[LastInstr.rs], SignExtend16(LastInstr.imm16))

\* the defined MMIO registers
MmioRegisters ==
  {TIMER1_CTRL, TIMER1_PERIOD, TIMER1_COUNT, TIMER1_RESET, TIMER1_ACK,
   TIMER2_CTRL, TIMER2_PERIOD, TIMER2_COUNT, TIMER2_RESET, TIMER2_ACK,
   UART_TX, UART_STATUS}

\* an address in RAM, or inside a defined MMIO register
MappedByte(a) == LeU32(a, RAM_END) \/ Align4(a) \in MmioRegisters
MappedWord(a) == a[2] % 4 = 0 /\ MappedByte(a)

(***************************************************************************)
(* C1: after every step -- executed word, interrupt entry, illegal opcode, *)
(* bus error, no-op while halted -- regs[0] is 0; a word whose destination *)
(* field is 0 leaves no result behind.                                     *)
(***************************************************************************)
C1_R0IsZero == cpu.regs[0] = Zero32

\* JALR r0, rs was executed: its link value PC + 4 is not 0 and was discarded
C1_Witness ==
  /\ Executed /\ last.res.tag = "Ok"
  /\ LastInstr.opcode = OP_JALR /\ LastInstr.rd = 0
  /\ PcPlus(last.cpu.pc, 4) # Zero32
  /\ cpu.pc = last.cpu.regs[LastInstr.rs]

(***************************************************************************)
(* C2: an ALU, immediate, load/store or NOP word executed with no IRQ      *)
(* asserted, whose data access (if any) targets RAM or a defined MMIO      *)
(* register (word accesses aligned), leaves PC = PC before + 4.            *)
(***************************************************************************)
C2_SequentialPc ==
  (/\ Executed
   /\ \/ LastInstr.opcode \in AluRegOps \cup AluImmOps \cup {OP_NOP}
      \/ LastInstr.opcode \in {OP_LW, OP_SW} /\ MappedWord(EffAddr)
      \/ LastInstr.opcode \in {OP_LB, OP_SB} /\ MappedByte(EffAddr))
  => cpu.pc = PcPlus(last.cpu.pc, 4)

(***************************************************************************)
(* C3: a branch executed with no IRQ asserted sets PC to PC + 4 + 4*d when *)
(* its condition on regs[rd], regs[rs] holds and to PC + 4 otherwise, and  *)
(* changes no general register.                                            *)
(***************************************************************************)
C3_Condition ==
  LET a == last.cpu.regs[LastInstr.rd]
      b == last.cpu.regs[LastInstr.rs]
  IN  CASE LastInstr.opcode = OP_BEQ -> a = b
        [] LastInstr.opcode = OP_BNE -> a # b
        [] LastInstr.opcode = OP_BLT -> Signed(a) < Signed(b)
        [] LastInstr.opcode = OP_BGE -> Signed(a) >= Signed(b)
        [] OTHER -> FALSE

C3_BranchPc ==
  (Executed /\ LastInstr.opcode \in BranchOps)
  => /\ cpu.pc = IF C3_Condition
                 THEN PcPlus(last.cpu.pc, 4 + 4 * Disp(LastInstr.imm16))
                 ELSE PcPlus(last.cpu.pc, 4)
     /\ cpu.regs = last.cpu.regs

\* a BLT was taken on a negative first operand
C3_Witness ==
  /\ Executed /\ LastInstr.opcode = OP_BLT /\ C3_Condition
  /\ Signed(last.cpu.regs[LastInstr.rd]) < 0
  /\ Disp(LastInstr.imm16) # 0
  /\ cpu.pc = PcPlus(last.cpu.pc, 4 + 4 * Disp(LastInstr.imm16))

(***************************************************************************)
(* C4: after J or JAL executed with no IRQ asserted, PC bits 31..28 are    *)
(* those of the old PC, bits 1..0 are 0 and bits 27..2 are the target      *)
(* field.                                                                  *)
(***************************************************************************)
C4_JumpPc ==
  (Executed /\ LastInstr.opcode \in {OP_J, OP_JAL})
  => /\ cpu.pc[1] \div 4096 = last.cpu.pc[1] \div 4096
     /\ cpu.pc[2] % 4 = 0
     /\ ((cpu.pc[1] % 4096) * 65536 + cpu.pc[2]) \div 4
          = LastInstr.target[1] * 65536 + LastInstr.target[2]

\* a jump executed from a PC whose bits 31..28 are not 0
C4_Witness ==
  /\ Executed /\ LastInstr.opcode \in {OP_J, OP_JAL}
  /\ last.cpu.pc[1] \div 4096 # 0
  /\ cpu.pc[1] \div 4096 = last.cpu.pc[1] \div 4096

(***************************************************************************)
(* C5: JAL at A writes A + 4 to r31 and to no other register, so a JR r31  *)
(* that follows it returns to A + 4; JALR rd, rs writes PC + 4 to rd (r0   *)
(* discards it) and sets PC to the value rs held before, also if rd = rs.  *)
(***************************************************************************)
C5_Link ==
  /\ (Executed /\ LastInstr.opcode = OP_JAL)
     => cpu.regs = [last.cpu.regs EXCEPT ![31] = PcPlus(last.cpu.pc, 4)]
  /\ (/\ Executed /\ LastInstr.opcode = OP_JR /\ LastInstr.rs = 31
      /\ last.prev.executed /\ Decode(last.prev.raw).opcode = OP_JAL)
     => cpu.pc = PcPlus(last.prev.pc, 4)
  /\ (Executed /\ LastInstr.opcode = OP_JALR)
     => /\ cpu.pc = last.cpu.regs[LastInstr.rs]
        /\ cpu.regs = IF LastInstr.rd = 0 THEN last.cpu.regs
                      ELSE [last.cpu.regs EXCEPT
                              ![LastInstr.rd] = PcPlus(last.cpu.pc, 4)]

\* a JR r31 that follows a JAL has returned behind it
C5_Witness ==
  /\ Executed /\ LastInstr.opcode = OP_JR /\ LastInstr.rs = 31
  /\ last.prev.executed /\ Decode(last.prev.raw).opcode = OP_JAL
  /\ cpu.pc = PcPlus(last.prev.pc, 4)
  /\ cpu.regs[31] = cpu.pc

\* JALR with rd = rs, on a register that held a non-zero value
C5_JalrSameRegister ==
  /\ Executed /\ LastInstr.opcode = OP_JALR
  /\ LastInstr.rd = LastInstr.rs /\ LastInstr.rd # 0
  /\ last.cpu.regs[LastInstr.rs] # PcPlus(last.cpu.pc, 4)

(***************************************************************************)
(* C6: with several IRQ lines asserted the cause recorded is that of the   *)
(* first asserted line in the order Timer1, Timer2, UART.                  *)
(***************************************************************************)
C6_Priority ==
  Interrupted
  => cpu.cause = IF last.irq.timer1 THEN <<0, 256>>
                 ELSE IF last.irq.timer2 THEN <<0, 257>>
                 ELSE <<0, 258>>

\* Timer2 and UART asserted together, Timer1 clear: the cause is Timer2's
C6_Witness ==
  /\ Interrupted
  /\ ~last.irq.timer1 /\ last.irq.timer2 /\ last.irq.uart
  /\ cpu.cause = <<0, 257>>

(***************************************************************************)
(* C7: interrupt entry of a running CPU sets EPC to the PC the step        *)
(* started at, CAUSE to the selected cause, clears bit 4 of SR and keeps   *)
(* its other bits, sets PC to 0x100, and executes nothing: registers,      *)
(* halted, memory and devices are as the step found them.                  *)
(***************************************************************************)
C7_Entry ==
  Interrupted
  => /\ cpu.epc = last.cpu.pc
     /\ cpu.cause \in {<<0, 256>>, <<0, 257>>, <<0, 258>>}
     /\ (cpu.cause = <<0, 256>>) = last.irq.timer1
     /\ cpu.sr = <<last.cpu.sr[1],
                   last.cpu.sr[2]
                     - (IF (last.cpu.sr[2] \div 16) % 2 = 1 THEN 16 ELSE 0)>>
     /\ cpu.pc = <<0, 256>>
     /\ cpu.regs = last.cpu.regs
     /\ cpu.halted = last.cpu.halted
     /\ bus = last.bus
     /\ last.res.tag = "Ok"

\* an interrupt was entered at a PC other than 0 where a HALT word sat: the
\* word was not executed
C7_Witness ==
  /\ Interrupted
  /\ LastInstr.opcode = OP_HALT
  /\ last.cpu.pc # Zero32
  /\ cpu.epc = last.cpu.pc /\ ~cpu.halted

(***************************************************************************)
(* C8: an asserted IRQ line makes a running CPU whose fetch succeeds enter *)
(* the interrupt whatever SR holds, with the IE bit set or clear.          *)
(***************************************************************************)
C8_RegardlessOfIE ==
  \A ie \in {0, 1} :
    (Ran /\ IrqAsserted /\ (last.cpu.sr[2] \div 16) % 2 = ie)
    => /\ cpu.pc = <<0, 256>>
       /\ cpu.epc = last.cpu.pc
       /\ cpu.cause[2] \in {256, 257, 258}

\* the interrupt was entered with the IE bit of SR clear
C8_Witness ==
  /\ Ran /\ IrqAsserted
  /\ (last.cpu.sr[2] \div 16) % 2 = 0
  /\ cpu.pc = <<0, 256>> /\ cpu.cause[2] \in {256, 257, 258}

(***************************************************************************)
(* C9: HALT sets halted and changes neither the PC nor a register; a step  *)
(* of a halted CPU returns success and changes nothing of the CPU or the   *)
(* bus, whatever the snapshot; Machine::step still ticks a running timer.  *)
(***************************************************************************)
C9_Halt ==
  /\ (Executed /\ LastInstr.opcode = OP_HALT)
     => /\ cpu.halted
        /\ cpu.pc = last.cpu.pc
        /\ cpu.regs = last.cpu.regs
  /\ (last.fresh /\ last.cpu.halted)
     => /\ cpu = last.cpu
        /\ cpu.halted
        /\ bus = last.bus
        /\ last.res.tag = "Ok"
  /\ (/\ last.fresh /\ last.kind = "machine" /\ last.cpu.halted
      /\ last.bus0.timer1.period # Zero32
      /\ last.bus0.timer1.ctrl[2] % 2 = 1
      /\ (last.bus0.timer1.ctrl[2] \div 4) % 2 = 0)
     => bus.timer1.counter[2] =
           (last.bus0.timer1.counter[2] + 1) % last.bus0.timer1.period[2]

\* a Machine::step of a halted CPU with IRQ lines asserted: Timer1 counted,
\* the CPU stayed as it was
C9_Witness ==
  /\ last.fresh /\ last.kind = "machine" /\ last.cpu.halted
  /\ IrqAsserted
  /\ bus.timer1.counter # last.bus0.timer1.counter
  /\ cpu = last.cpu

(***************************************************************************)
(* C10: when the fetch, or the data access of LW, LB, SW or SB, returns a  *)
(* bus error, Cpu::step returns that error and the CPU state is exactly    *)
(* what it was.                                                            *)
(***************************************************************************)
\* the outcome of the data access of the most recent step's word
DataAccess ==
  CASE LastInstr.opcode = OP_LW -> Load32(last.bus, EffAddr).res
    [] LastInstr.opcode = OP_LB -> Load8(last.bus, EffAddr).res
    [] LastInstr.opcode = OP_SW ->
         Store32(last.bus, EffAddr, last.cpu.regs[LastInstr.rd]).res
    [] LastInstr.opcode = OP_SB ->
         Store8(last.bus, EffAddr, last.cpu.regs[LastInstr.rd][2] % 256).res
    [] OTHER -> OkRes

C10_BusError ==
  /\ (last.fresh /\ ~last.cpu.halted /\ Fetched.res.tag # "Ok")
     => (last.res = Fetched.res /\ cpu = last.cpu)
  /\ (Executed /\ DataAccess.tag # "Ok")
     => (last.res = DataAccess /\ cpu = last.cpu)

\* a load from a misaligned address failed at a PC other than 0
C10_Witness ==
  /\ Executed /\ LastInstr.opcode = OP_LW
  /\ DataAccess.tag = "Misaligned"
  /\ last.res.tag = "Misaligned"
  /\ last.cpu.pc # Zero32 /\ cpu.pc = last.cpu.pc

\* a fetch from a misaligned PC failed
C10_FetchMisaligned ==
  /\ last.fresh /\ Fetched.res.tag = "Misaligned" /\ cpu = last.cpu

(***************************************************************************)
(* C11: a word whose opcode field is none of the defined opcodes, executed *)
(* with no IRQ asserted, sets EPC to its own address, CAUSE to 0 and PC to *)
(* 0x0000_0100 and leaves the registers, SR and halted as they were.       *)
(***************************************************************************)
C11_IllegalOpcode ==
  (Executed /\ LastInstr.opcode \notin DefinedOps)
  => /\ cpu.epc = last.cpu.pc
     /\ cpu.cause = Zero32
     /\ cpu.pc = <<0, 256>>
     /\ cpu.regs = last.cpu.regs
     /\ cpu.sr = last.cpu.sr
     /\ cpu.halted = last.cpu.halted
     /\ bus = last.bus
     /\ last.res.tag = "Ok"

\* an illegal word was executed at a PC other than 0, with a register set
C11_Witness ==
  /\ Executed /\ LastInstr.opcode \notin DefinedOps
  /\ last.cpu.pc # Zero32 /\ last.cpu.regs[1] # Zero32
  /\ cpu.epc = last.cpu.pc /\ cpu.pc = <<0, 256>>

(***************************************************************************)
(* C12: a timer started at counter 0 with period N >= 1, EN and IE set and *)
(* ONESHOT clear, whose IRQ is acknowledged after each assertion, raises   *)
(* its irq flag on tick k exactly when k is a positive multiple of N.      *)
(***************************************************************************)
C12_OnePerPeriod ==
  (/\ last.fresh /\ last.kind = "tick"
   /\ bus.timer1.period # Zero32
   /\ HasBit(bus.timer1.ctrl, ENABLED_BIT)
   /\ HasBit(bus.timer1.ctrl, IRQ_ENABLED)
   /\ ~HasBit(bus.timer1.ctrl, ONE_SHOT))
  => ((~last.bus0.timer1.irq /\ bus.timer1.irq)
        <=> (nsteps > 0 /\ nsteps % bus.timer1.period[2] = 0))

\* the third assertion of a timer of period 3, on tick 9
C12_Witness ==
  /\ last.fresh /\ last.kind = "tick"
  /\ bus.timer1.period = <<0, 3>> /\ nsteps = 9
  /\ ~last.bus0.timer1.irq /\ bus.timer1.irq

\* a timer of period 1 asserts on every tick
C12_PeriodOne ==
  /\ last.fresh /\ last.kind = "tick"
  /\ bus.timer1.period = <<0, 1>> /\ nsteps = 2
  /\ ~last.bus0.timer1.irq /\ bus.timer1.irq

(***************************************************************************)
(* C13: the bytes the backend sink received are the low bytes written to   *)
(* UART TX (by byte stores, word stores and write_tx calls), in the order  *)
(* written, none lost, repeated or moved, whatever ticks and received      *)
(* bytes came in between.                                                  *)
(***************************************************************************)
C13_TxInOrder == bus.uart.tx = Written

\* three bytes went out, neighbours different, the last one by a word store
\* (which the bus reports as an error), while a received byte sat in the RX
\* buffer
C13_Witness ==
  /\ last.kind = "uart" /\ Len(last.written) = 3
  /\ last.written[1] # last.written[2] /\ last.written[2] # last.written[3]
  /\ bus.uart.rx_buffer # <<>>
  /\ last.res.tag = "OutOfBounds"
  /\ bus.uart.tx = last.written

(***************************************************************************)
(* C14 as claimed: when a device raises its IRQ in the ticks of a          *)
(* Machine::step, the CPU part of that step still executes the fetched     *)
(* word as if no line were asserted.                                       *)
(***************************************************************************)
\* the ticks of the most recent Machine::step raised an IRQ line
TickRaised ==
  /\ last.fresh /\ last.kind = "machine"
  /\ \/ ~last.bus0.timer1.irq /\ last.bus.timer1.irq
     \/ ~last.bus0.timer2.irq /\ last.bus.timer2.irq
     \/ ~last.bus0.uart.irq /\ last.bus.uart.irq

C14_NextStepOnly ==
  (TickRaised /\ Ran)
  => cpu = Execute(last.cpu, last.bus, LastInstr).cpu

(***************************************************************************)
(* C14 amended: an IRQ a device raises in the ticks of a Machine::step is  *)
(* in that step's snapshot, and the CPU part of the same step, if running  *)
(* with a successful fetch, enters the interrupt instead of executing the  *)
(* fetched word.                                                           *)
(***************************************************************************)
C14_SameStep ==
  (TickRaised /\ Ran)
  => /\ IrqAsserted
     /\ cpu.pc = <<0, 256>>
     /\ cpu.epc = last.cpu.pc
     /\ cpu.cause = IrqCheck(last.irq).cause
     /\ cpu.regs = last.cpu.regs
     /\ bus = last.bus

\* Timer1 reached its period of 2 in the second Machine::step, and that step
\* entered the interrupt at PC 4
C14_Witness ==
  /\ TickRaised /\ Ran
  /\ ~last.bus0.timer1.irq /\ last.bus.timer1.irq
  /\ last.bus.timer1.period = <<0, 2>>
  /\ last.cpu.pc = <<0, 4>>
  /\ cpu.epc = <<0, 4>> /\ cpu.pc = <<0, 256>> /\ cpu.cause = <<0, 256>>

(***************************************************************************)
(* C15 as claimed: from reset, with Timer1's period 3 and ctrl EN|IE and   *)
(* HALT stored at 0x0000_0100, four Machine::step calls leave CAUSE =      *)
(* 0x100, EPC = 0, PC = 0x0000_0100 and halted = true.                     *)
(***************************************************************************)
\* the timer scenario after n Machine::step calls
TimerScenario(n) ==
  /\ nsteps = n
  /\ bus.ram = LoadWords(EmptyMem, TimerImage.base, TimerImage.words)
  /\ bus.timer1.period = <<0, 3>>
  /\ bus.timer1.ctrl = <<0, ENABLED_BIT + IRQ_ENABLED>>

C15_TimerEntry ==
  TimerScenario(4)
  => /\ cpu.cause = <<0, 256>>
     /\ cpu.epc = Zero32
     /\ cpu.pc = <<0, 256>>
     /\ cpu.halted

(***************************************************************************)
(* C15 amended: in that scenario the third Machine::step enters the        *)
(* interrupt with EPC = 8; after four calls CAUSE = 0x100, EPC = 0x100,    *)
(* PC = 0x0000_0100 and halted = false, and the same holds after every     *)
(* later call: the IRQ is never acknowledged, so HALT is never executed.   *)
(***************************************************************************)
C15_TimerEntryAsBuilt ==
  /\ TimerScenario(3)
     => /\ cpu.cause = <<0, 256>> /\ cpu.epc = <<0, 8>>
        /\ cpu.pc = <<0, 256>> /\ ~cpu.halted
  /\ \A n \in 4..(MaxRunSteps + 1) :
       TimerScenario(n)
       => /\ cpu.cause = <<0, 256>> /\ cpu.epc = <<0, 256>>
          /\ cpu.pc = <<0, 256>> /\ ~cpu.halted

\* the scenario after its fourth Machine::step
C15_Witness ==
  /\ TimerScenario(4) /\ last.fresh /\ last.kind = "machine"
  /\ last.cpu.pc = <<0, 256>> /\ last.irq.timer1
  /\ cpu.epc = <<0, 256>> /\ ~cpu.halted

(***************************************************************************)
(* Assembler (src/src/assembler.rs).  A source line is a record: label     *)
(* ("" for none), mn (the mnemonic, or ".org"), r1 and r2 (register        *)
(* numbers) and arg, the last operand.  An operand is a numeric literal    *)
(* [form, mag] -- form "dec", "negdec", "hex" (0x..), "neghex" (-0x..) or  *)
(* "HEX" (0X..), mag the magnitude as a word -- or a name [form |-> "name",*)
(* name].  No .equ is used, so the equates table is empty.  An i16 is kept *)
(* as its 16-bit pattern 0..65535.                                         *)
(***************************************************************************)
Lit(form, hi, lo) == [form |-> form, mag |-> <<hi, lo>>]
Name(n) == [form |-> "name", name |-> n]

\* Err(AsmError::kind(..)); the message is left out
AsmError(kind) == [ok |-> FALSE, err |-> kind]

\* parse_imm: the 16-bit immediate of an instruction
ParseImm(arg) ==
  CASE arg.form = "hex" ->
         IF arg.mag[1] = 0 THEN [ok |-> TRUE, v |-> arg.mag[2]] ELSE AsmError("InvalidImmediate")
    [] arg.form \in {"neghex", "negdec"} ->
         IF arg.mag[1] = 0 /\ arg.mag[2] <= 32768
         THEN [ok |-> TRUE, v |-> (Half - arg.mag[2]) % Half]
         ELSE AsmError("InvalidImmediate")
    [] arg.form = "dec" ->
         IF arg.mag[1] = 0 /\ arg.mag[2] <= 32767
         THEN [ok |-> TRUE, v |-> arg.mag[2]]
         ELSE AsmError("InvalidImmediate")
    [] OTHER -> AsmError("InvalidImmediate")

\* parse_u32_literal: hex (0x or 0X) or unsigned decimal
ParseU32Literal(arg) ==
  IF arg.form \in {"hex", "HEX", "dec"}
  THEN [ok |-> TRUE, val |-> arg.mag]
  ELSE AsmError("InvalidImmediate")

ImmValue(v) == [k |-> "Value", v |-> v]

\* parse_imm_or_label with no equates and no character literal
ParseImmOrLabel(arg) ==
  IF ParseImm(arg).ok THEN ImmValue(ParseImm(arg).v)
  ELSE [k |-> "Label", name |-> arg]

\* the variants of the instruction IR: I-type with an Imm, branch with a
\* label, jump with a label
InstrI(op, rd, rs, imm) == [t |-> "I", op |-> op, rd |-> rd, rs |-> rs,
                            imm |-> imm]
\* mutant of InstrB: the second operand register is dropped and the first
\* is compared with itself
InstrB_SameReg(op, rs, rt, label) == [t |-> "B", op |-> op, rd |-> rs,
                                      rs |-> rs, label |-> label]

\* mutant of InstrB: the two operand registers change places
InstrB_Swapped(op, rs, rt, label) == [t |-> "B", op |-> op, rd |-> rt,
                                      rs |-> rs, label |-> label]

InstrB(op, rs, rt, label) == [t |-> "B", op |-> op, rd |-> rs, rs |-> rt,
                              label |-> label]
\* mutant of InstrJ: every jump is assembled as a plain J
InstrJ_NoLink(op, label) == [t |-> "J", op |-> OP_J, label |-> label]

InstrJ(op, label) == [t |-> "J", op |-> op, label |-> label]

\* LUI rd, upper16; ORI rd, rd, lower16
LuiOri(rd, upper, lower) ==
  <<InstrI(OP_LUI, rd, 0, upper), InstrI(OP_ORI, rd, rd, lower)>>

\* the "li" arm of parse_instruction
ParseLi(rd, arg) ==
  LET imm == ParseImmOrLabel(arg)
      lit == ParseU32Literal(arg)
  IN  IF imm.k = "Value" THEN <<InstrI(OP_ADDI, rd, 0, imm)>>
      ELSE IF lit.ok
      THEN IF lit.val[1] = 0
           THEN <<InstrI(OP_ADDI, rd, 0, ImmValue(lit.val[2]))>>
           ELSE LuiOri(rd, ImmValue(lit.val[1]), ImmValue(lit.val[2]))
      ELSE <<InstrI(OP_ADDI, rd, 0, imm)>>

\* the "la" arm of parse_instruction
ParseLa(rd, arg) ==
  LET imm == ParseImmOrLabel(arg)
  IN  IF imm.k = "Value"
      THEN LuiOri(rd, ImmValue(IF imm.v >= 32768 THEN 65535 ELSE 0), imm)
      ELSE LuiOri(rd, [k |-> "LabelHi", name |-> arg],
                  [k |-> "LabelLo", name |-> arg])

\* the opcode of a mnemonic that assembles to one I-type word
ITypeOp(mn) ==
  CASE mn = "sb" -> OP_SB [] mn = "sw" -> OP_SW
    [] mn = "lw" -> OP_LW [] mn = "lb" -> OP_LB
    [] mn = "addi" -> OP_ADDI [] mn = "andi" -> OP_ANDI
    [] mn = "ori" -> OP_ORI [] mn = "xori" -> OP_XORI
    [] mn = "slti" -> OP_SLTI [] mn = "sltiu" -> OP_SLTIU

AluRegMnemonics ==
  {"add", "sub", "and", "or", "xor", "slt", "sltu", "shl", "shr", "sar"}

AluRegOp(mn) ==
  CASE mn = "add" -> OP_ADD [] mn = "sub" -> OP_SUB
    [] mn = "and" -> OP_AND [] mn = "or" -> OP_OR
    [] mn = "xor" -> OP_XOR [] mn = "slt" -> OP_SLT
    [] mn = "sltu" -> OP_SLTU [] mn = "shl" -> OP_SHL
    [] mn = "shr" -> OP_SHR [] mn = "sar" -> OP_SAR

BranchOp(mn) ==
  CASE mn = "beq" -> OP_BEQ [] mn = "bne" -> OP_BNE
    [] mn = "blt" -> OP_BLT [] mn = "bge" -> OP_BGE

\* parse_instruction: the IR instructions one source line expands to
ParseInstruction(line) ==
  LET mn == line.mn
  IN  CASE mn \in {"sb", "sw", "lw", "lb", "addi", "andi", "ori", "xori",
                   "slti", "sltiu"} ->
             <<InstrI(ITypeOp(mn), line.r1, line.r2, ParseImmOrLabel(line.arg))>>
        [] mn = "lui" ->
             <<InstrI(OP_LUI, line.r1, 0, ParseImmOrLabel(line.arg))>>
        [] mn \in AluRegMnemonics ->
             \* Instruction::Add { rd, rs } and the like, which
             \* encode_instruction turns into enc_i(op, rd, rs, 0)
             <<InstrI(AluRegOp(mn), line.r1, line.r2, ImmValue(0))>>
        [] mn \in {"beq", "bne", "blt", "bge"} ->
             <<InstrB(BranchOp(mn), line.r1, line.r2, line.arg)>>
        [] mn = "j" -> <<InstrJ(OP_J, line.arg)>>
        [] mn = "jal" -> <<InstrJ(OP_JAL, line.arg)>>
        [] mn = "jr" -> <<InstrI(OP_JR, 0, line.r1, ImmValue(0))>>
        [] mn = "jalr" -> <<InstrI(OP_JALR, line.r1, line.r2, ImmValue(0))>>
        [] mn = "li" -> ParseLi(line.r1, line.arg)
        [] mn = "la" -> ParseLa(line.r1, line.arg)
        [] mn = "nop" -> <<InstrI(OP_NOP, 0, 0, ImmValue(0))>>
        [] mn = "halt" -> <<InstrI(OP_HALT, 0, 0, ImmValue(0))>>

\* the argument of .ascii and .string: the bytes between the quotes, escapes
\* resolved
Str(bytes) == [form |-> "str", bytes |-> bytes]

\* .string / .ascii: the bytes packed four to a little-endian word, the last
\* word padded with zeros, each word at the next address
RECURSIVE PlaceBytes(_, _)
PlaceBytes(bytes, pc) ==
  IF bytes = <<>> THEN <<>>
  ELSE LET b(k) == IF k <= Len(bytes) THEN bytes[k] ELSE 0
       IN  <<[addr |-> pc, word |-> FromLeBytes(b(1), b(2), b(3), b(4))]>>
           \o PlaceBytes(IF Len(bytes) <= 4 THEN <<>>
                         ELSE SubSeq(bytes, 5, Len(bytes)),
                         Add32(pc, <<0, 4>>))

\* the directives of the first pass that lay out data or reserve space;
\* a .bss count is multiplied by 4 with the width of a u32
Directive(st1, line) ==
  CASE line.mn = ".ascii" ->
         LET ws == PlaceBytes(line.arg.bytes, st1.pc)
         IN  [st1 EXCEPT !.data = @ \o ws,
                         !.pc = Add32(@, <<0, 4 * Len(ws)>>)]
    [] line.mn = ".string" ->
         LET ws == PlaceBytes(Append(line.arg.bytes, 0), st1.pc)
         IN  [st1 EXCEPT !.data = @ \o ws,
                         !.pc = Add32(@, <<0, 4 * Len(ws)>>)]
    [] line.mn = ".bss" ->
         IF line.arg.form \in {"hex", "dec"}
         THEN [st1 EXCEPT !.bss = Append(@, [base |-> st1.pc,
                                             len |-> line.arg.mag]),
                          !.pc = Add32(@, Shl32(line.arg.mag, 2))]
         ELSE [st1 EXCEPT !.ok = FALSE,
                          !.err = IF st1.ok THEN "InvalidImmediate"
                                  ELSE st1.err]

Directives == {".ascii", ".string", ".bss"}

\* the lines an instruction list occupies from address pc on
RECURSIVE PlaceInstrs(_, _)
PlaceInstrs(instrs, pc) ==
  IF instrs = <<>> THEN <<>>
  ELSE <<[addr |-> pc, instr |-> Head(instrs)]>>
       \o PlaceInstrs(Tail(instrs), Add32(pc, <<0, 4>>))

\* mutant of FirstPassLine: the address counter advances by one word per
\* source line, whatever the line expands to
FirstPassLine_OneWord(st, line) ==
  LET dup == line.label # "" /\ line.label \in DOMAIN st.labels
      labels == IF line.label = "" \/ dup THEN st.labels
                ELSE (line.label :> st.pc) @@ st.labels
      st1 == [st EXCEPT !.labels = labels, !.ok = st.ok /\ ~dup,
                        !.err = IF st.ok /\ dup THEN "ParseError" ELSE st.err]
  IN  CASE line.mn = "" -> st1
        [] line.mn = ".org" ->
             IF line.arg.form \in {"hex", "dec"}
             THEN [st1 EXCEPT !.pc = line.arg.mag]
             ELSE [st1 EXCEPT !.ok = FALSE,
                              !.err = IF st1.ok THEN "InvalidImmediate"
                                      ELSE st1.err]
        [] line.mn \in Directives -> Directive(st1, line)
        [] OTHER ->
             LET instrs == ParseInstruction(line)
             IN  [st1 EXCEPT
                    !.lines = st.lines \o PlaceInstrs(instrs, st.pc),
                    !.pc = Add32(st.pc, <<0, 4>>)]

\* one iteration of the first pass of assemble_nv32: the label (at the
\* current address), then a label-only line, .org (parse_u32), or an
\* instruction
FirstPassLine(st, line) ==
  LET dup == line.label # "" /\ line.label \in DOMAIN st.labels
      labels == IF line.label = "" \/ dup THEN st.labels
                ELSE (line.label :> st.pc) @@ st.labels
      st1 == [st EXCEPT !.labels = labels, !.ok = st.ok /\ ~dup,
                        !.err = IF st.ok /\ dup THEN "ParseError" ELSE st.err]
  IN  CASE line.mn = "" -> st1
        [] line.mn = ".org" ->
             IF line.arg.form \in {"hex", "dec"}
             THEN [st1 EXCEPT !.pc = line.arg.mag]
             ELSE [st1 EXCEPT !.ok = FALSE,
                              !.err = IF st1.ok THEN "InvalidImmediate"
                                      ELSE st1.err]
        [] line.mn \in Directives -> Directive(st1, line)
        [] OTHER ->
             LET instrs == ParseInstruction(line)
             IN  [st1 EXCEPT
                    !.lines = st.lines \o PlaceInstrs(instrs, st.pc),
                    !.pc = Add32(st.pc, <<0, 4 * Len(instrs)>>)]

RECURSIVE FirstPass(_, _)
FirstPass(st, src) ==
  IF src = <<>> THEN st
  ELSE FirstPass(FirstPassLine(st, Head(src)), Tail(src))

\* get_label_addr
GetLabelAddr(arg, labels) ==
  IF arg.form = "name" /\ arg.name \in DOMAIN labels
  THEN [ok |-> TRUE, addr |-> labels[arg.name]]
  ELSE AsmError("UnknownLabel")

\* resolve_imm with no equates
ResolveImm(imm, labels) ==
  IF imm.k = "Value" THEN [ok |-> TRUE, v |-> imm.v]
  ELSE LET l == GetLabelAddr(imm.name, labels)
       IN  IF ~l.ok THEN l
           ELSE CASE imm.k = "Label" ->
                       IF l.addr[1] = 0 /\ l.addr[2] <= 32767
                       THEN [ok |-> TRUE, v |-> l.addr[2]]
                       ELSE AsmError("InvalidImmediate")
                  [] imm.k = "LabelHi" -> [ok |-> TRUE, v |-> l.addr[1]]
                  [] imm.k = "LabelLo" -> [ok |-> TRUE, v |-> l.addr[2]]

\* mutant of BranchImm: the displacement is counted from the branch itself
BranchImm_FromPc(label, labels, pc) ==
  LET l == GetLabelAddr(label, labels)
      d == Signed(Sub32(l.addr, pc))
      m == 0 - (d + 1)
      diff == IF d >= 0 THEN d \div 4
              ELSE 0 - ((m \div 4) + (IF m % 4 = 3 THEN 1 ELSE 0))
  IN  IF ~l.ok THEN l @@ [overflow |-> FALSE]
      ELSE [overflow |-> FALSE]
           @@ (IF diff < -32768 \/ diff > 32767
               THEN AsmError("InvalidImmediate")
               ELSE [ok |-> TRUE, v |-> (diff + Half) % Half])

\* branch_imm: ((target as i32) - (pc_next as i32)) / 4 as an i16.  The
\* subtraction is a plain `-` on i32: where it overflows, a build with
\* overflow checks panics there and a build without them goes on with the
\* wrapped difference.  overflow says that it overflows; the other fields
\* are the outcome of the build that wraps.  The division truncates
\* towards 0.
BranchImm(label, labels, pc) ==
  LET l == GetLabelAddr(label, labels)
      pc_next == Add32(pc, <<0, 4>>)
      t == Signed(l.addr)
      p == Signed(pc_next)
      d == Signed(Sub32(l.addr, pc_next))
      m == 0 - (d + 1)
      diff == IF d >= 0 THEN d \div 4
              ELSE 0 - ((m \div 4) + (IF m % 4 = 3 THEN 1 ELSE 0))
  IN  IF ~l.ok THEN l @@ [overflow |-> FALSE]
      ELSE [overflow |-> (t >= 0) # (p >= 0) /\ (d >= 0) # (t >= 0)]
           @@ (IF diff < -32768 \/ diff > 32767
               THEN AsmError("InvalidImmediate")
               ELSE [ok |-> TRUE, v |-> (diff + Half) % Half])

\* encode_instruction; overflow as in BranchImm
EncodeInstruction(instr, labels, pc) ==
  CASE instr.t = "I" ->
         LET r == ResolveImm(instr.imm, labels)
         IN  [overflow |-> FALSE]
             @@ (IF r.ok
                 THEN [ok |-> TRUE,
                       word |-> EncI(instr.op, instr.rd, instr.rs, r.v)]
                 ELSE r)
    [] instr.t = "B" ->
         LET r == BranchImm(instr.label, labels, pc)
         IN  IF r.ok
             THEN [ok |-> TRUE, overflow |-> r.overflow,
                   word |-> EncI(instr.op, instr.rd, instr.rs, r.v)]
             ELSE r
    [] instr.t = "J" ->
         LET l == GetLabelAddr(instr.label, labels)
             addr == Shr32(l.addr, 2)
         IN  [overflow |-> FALSE]
             @@ (IF l.ok
                 THEN [ok |-> TRUE,
                       word |-> EncJ(instr.op, addr[1] % 1024, addr[2])]
                 ELSE l)

\* assemble_nv32: first pass, then every line encoded at its address, in
\* order, up to the first error.  ok, err and mem are the outcome of a
\* build whose arithmetic wraps; panics says that a build with overflow
\* checks panics in branch_imm before any error is returned.
Assemble(src) ==
  LET st == FirstPass([pc |-> Zero32, labels |-> <<>>, lines |-> <<>>,
                       data |-> <<>>, bss |-> <<>>,
                       ok |-> TRUE, err |-> ""], src)
      enc(i) == EncodeInstruction(st.lines[i].instr, st.labels,
                                  st.lines[i].addr)
      bad == {i \in 1..Len(st.lines) : ~enc(i).ok}
      first == CHOOSE i \in bad : \A j \in bad : i <= j
  IN  [ok |-> st.ok /\ bad = {},
       err |-> IF ~st.ok THEN st.err
               ELSE IF bad # {} THEN enc(first).err ELSE "",
       panics |-> st.ok /\ \E i \in 1..Len(st.lines) :
                             /\ enc(i).overflow
                             /\ \A j \in 1..(i - 1) : enc(j).ok,
       labels |-> st.labels,
       data |-> st.data,
       bss |-> st.bss,
       mem |-> [i \in 1..Len(st.lines) |->
                  [addr |-> st.lines[i].addr,
                   word |-> IF enc(i).ok THEN enc(i).word ELSE Zero32]]]

\* the words of an assembled program written to RAM, in address order of
\* emission (a later word for the same address replaces the earlier one)
RECURSIVE LoadMem(_, _)
LoadMem(ram, mem) ==
  IF mem = <<>> THEN ram
  ELSE LoadMem(RamWrite32(ram, Head(mem).addr, Head(mem).word).ram, Tail(mem))


(***************************************************************************)
(* Assembled programs: the host assembles a source text, writes every word *)
(* of the result to memory and calls Machine::step.                        *)
(***************************************************************************)
Ln(label, mn, r1, r2, arg) ==
  [label |-> label, mn |-> mn, r1 |-> r1, r2 |-> r2, arg |-> arg]

NoArg == Lit("dec", 0, 0)

\* start: JAL sub; HALT; sub: JR r31
CallSource ==
  <<Ln("start", "jal", 0, 0, Name("sub")),
    Ln("", "halt", 0, 0, NoArg),
    Ln("sub", "jr", 31, 0, NoArg)>>

\* ADDI r1,r0,1; BEQ r1,r0,skip; ADDI r2,r0,7; skip: HALT
BranchSource ==
  <<Ln("", "addi", 1, 0, Lit("dec", 0, 1)),
    Ln("", "beq", 1, 0, Name("skip")),
    Ln("", "addi", 2, 0, Lit("dec", 0, 7)),
    Ln("skip", "halt", 0, 0, NoArg)>>

\* ADDI r1, r0, 0x1234; SW r1, 0(r0); LW r2, 0(r0); HALT
StoreLoadSource ==
  <<Ln("", "addi", 1, 0, Lit("hex", 0, 4660)),
    Ln("", "sw", 1, 0, Lit("dec", 0, 0)),
    Ln("", "lw", 2, 0, Lit("dec", 0, 0)),
    Ln("", "halt", 0, 0, NoArg)>>

\* the literals tried as the operand of li
LiLiterals ==
  {Lit("dec", 0, 0), Lit("dec", 0, 5), Lit("dec", 0, 32767),
   Lit("dec", 0, 32768), Lit("dec", 0, 40000), Lit("dec", 0, 65535),
   Lit("dec", 1, 0), Lit("dec", 4660, 22136), Lit("dec", 65535, 65535),
   Lit("negdec", 0, 1), Lit("negdec", 0, 32768), Lit("negdec", 0, 32769),
   Lit("hex", 0, 18), Lit("hex", 0, 32767), Lit("hex", 0, 32768),
   Lit("hex", 0, 65535), Lit("hex", 1, 0), Lit("hex", 57005, 48879),
   Lit("neghex", 0, 16), Lit("neghex", 0, 32768),
   Lit("HEX", 0, 255), Lit("HEX", 0, 32768), Lit("HEX", 32768, 0)}

\* li r1, imm; HALT
LiSource(arg) ==
  <<Ln("", "li", 1, 0, arg), Ln("", "halt", 0, 0, NoArg)>>

\* the value a literal denotes, mod 2^32
LitValue(arg) ==
  IF arg.form \in {"negdec", "neghex"} THEN Sub32(Zero32, arg.mag)
  ELSE arg.mag

\* addresses a label is put at with .org
FarAddrs ==
  {<<0, 32768>>, <<0, 65532>>, <<1, 4>>, <<4660, 43981>>, <<32768, 0>>,
   <<32768, 32768>>, <<65535, 65532>>}

\* forward reference: la r1, far; HALT; .org addr; far:
LaForwardSource(a) ==
  <<Ln("", "la", 1, 0, Name("far")),
    Ln("", "halt", 0, 0, NoArg),
    Ln("", ".org", 0, 0, Lit("hex", a[1], a[2])),
    Ln("far", "", 0, 0, NoArg)>>

\* backward reference past pseudo-ops:
\* li r3, 0x12345678; here: la r1, here; la r2, end; end: HALT
LaBackwardSource ==
  <<Ln("", "li", 3, 0, Lit("hex", 4660, 22136)),
    Ln("here", "la", 1, 0, Name("here")),
    Ln("", "la", 2, 0, Name("end")),
    Ln("end", "halt", 0, 0, NoArg)>>

\* the values stored and the RAM addresses stored to
MemValues ==
  {<<0, 4660>>, <<57005, 48879>>, <<0, 128>>, <<32768, 0>>, <<65535, 65535>>,
   Zero32}

MemAddrs == {<<0, 64>>, <<0, 32768>>, <<15, 65532>>}

\* la r1, val; la r3, adr; SW r1, 0(r3); LW r2, 0(r3); SB r1, k(r3);
\* LB r4, k(r3); HALT; .org v; val:; .org a; adr:
RoundTripSource(v, a, k) ==
  <<Ln("", "la", 1, 0, Name("val")),
    Ln("", "la", 3, 0, Name("adr")),
    Ln("", "sw", 1, 3, Lit("dec", 0, 0)),
    Ln("", "lw", 2, 3, Lit("dec", 0, 0)),
    Ln("", "sb", 1, 3, Lit("dec", 0, k)),
    Ln("", "lb", 4, 3, Lit("dec", 0, k)),
    Ln("", "halt", 0, 0, NoArg),
    Ln("", ".org", 0, 0, Lit("hex", v[1], v[2])),
    Ln("val", "", 0, 0, NoArg),
    Ln("", ".org", 0, 0, Lit("hex", a[1], a[2])),
    Ln("adr", "", 0, 0, NoArg)>>

\* branches that are taken: the mnemonic and its two registers, r1 being 1
TakenBranches ==
  {<<"beq", 0, 0>>, <<"bne", 1, 0>>, <<"blt", 0, 1>>, <<"bge", 1, 0>>}

\* the address E of a branch and the address L of its label, forward and
\* backward, the farthest being 32767 words ahead and 32768 words back
BranchTrips ==
  {<<(<<0, 8>>), (<<0, 12>>)>>, <<(<<0, 8>>), (<<0, 16>>)>>,
   <<(<<0, 256>>), (<<2, 256>>)>>, <<(<<0, 64>>), (<<0, 32836>>)>>,
   <<(<<0, 16>>), (<<0, 8>>)>>, <<(<<0, 64>>), (<<0, 60>>)>>,
   <<(<<2, 256>>), (<<0, 260>>)>>, <<(<<15, 65528>>), (<<15, 0>>)>>}

\* ADDI r1,r0,1; J site; .org E; site: Bxx ra, rb, target; .org L;
\* target: HALT
BranchTripSource(br, e, l) ==
  <<Ln("", "addi", 1, 0, Lit("dec", 0, 1)),
    Ln("", "j", 0, 0, Name("site")),
    Ln("", ".org", 0, 0, Lit("hex", e[1], e[2])),
    Ln("site", br[1], br[2], br[3], Name("target")),
    Ln("", ".org", 0, 0, Lit("hex", l[1], l[2])),
    Ln("target", "halt", 0, 0, NoArg)>>

\* the values compared by a branch
OperandValues ==
  {Zero32, <<0, 1>>, <<32767, 65535>>, <<32768, 0>>, <<65535, 65535>>}

BranchMnemonics == {"beq", "bne", "blt", "bge"}

\* la r1, x; la r2, y; Bxx r1, r2, t; HALT; t: HALT; .org X; x:; .org Y; y:
OperandSource(mn, x, y) ==
  <<Ln("", "la", 1, 0, Name("x")),
    Ln("", "la", 2, 0, Name("y")),
    Ln("", mn, 1, 2, Name("t")),
    Ln("", "halt", 0, 0, NoArg),
    Ln("t", "halt", 0, 0, NoArg),
    Ln("", ".org", 0, 0, Lit("hex", x[1], x[2])),
    Ln("x", "", 0, 0, NoArg),
    Ln("", ".org", 0, 0, Lit("hex", y[1], y[2])),
    Ln("y", "", 0, 0, NoArg)>>

\* the operands of the two-operand ALU instructions
AluValues == {<<0, 3>>, <<0, 5>>, <<65535, 65534>>}

\* la r1, x; la r2, y; OP r1, r2; HALT; .org X; x:; .org Y; y:
AluSource(mn, x, y) ==
  <<Ln("", "la", 1, 0, Name("x")),
    Ln("", "la", 2, 0, Name("y")),
    Ln("", mn, 1, 2, NoArg),
    Ln("", "halt", 0, 0, NoArg),
    Ln("", ".org", 0, 0, Lit("hex", x[1], x[2])),
    Ln("x", "", 0, 0, NoArg),
    Ln("", ".org", 0, 0, Lit("hex", y[1], y[2])),
    Ln("y", "", 0, 0, NoArg)>>

AsmSources ==
  {CallSource, BranchSource, StoreLoadSource, LaBackwardSource}
    \cup {LiSource(l) : l \in LiLiterals}
    \cup {LaForwardSource(a) : a \in FarAddrs}
    \cup {RoundTripSource(v, a, k) : v \in MemValues, a \in MemAddrs,
                                    k \in 0..3}
    \cup {BranchTripSource(br, t[1], t[2]) : br \in TakenBranches,
                                            t \in BranchTrips}
    \cup {OperandSource(mn, x, y) : mn \in BranchMnemonics,
                                     x \in OperandValues, y \in OperandValues}
    \cup {AluSource(mn, x, y) : mn \in AluRegMnemonics,
                                 x \in AluValues, y \in AluValues}

\* the memory a program's words make from empty RAM
Image(src) == LoadMem(EmptyMem, Assemble(src).mem)

\* the host assembles src and loads every word; nothing is loaded when the
\* assembler returns an error
LoadAssembled(src) ==
  /\ nloads = 0 /\ nsteps = 0
  /\ Assemble(src).ok
  /\ bus' = [bus EXCEPT !.ram = LoadMem(bus.ram, Assemble(src).mem)]
  /\ nloads' = 1
  /\ last' = [last EXCEPT !.fresh = FALSE]
  /\ UNCHANGED <<cpu, nsteps>>

NextAsm ==
  \/ \E src \in AsmSources : LoadAssembled(src)
  \/ nloads = 1 /\ nsteps < MaxAsmSteps /\ MachineStep

SpecAsm == Init /\ [][NextAsm]_vars

\* src has been assembled and loaded and n Machine::step calls made, none of
\* which stored over the program
Assembled(src, n) ==
  /\ nloads = 1 /\ nsteps = n
  /\ Assemble(src).ok
  /\ bus.ram = Image(src)


(***************************************************************************)
(* C16 as claimed: the program `start: JAL sub; HALT; sub: JR r31`,        *)
(* assembled with start at 0 and run from reset until the CPU halts, has   *)
(* r31 = 0x0000_0008 after the halt.                                       *)
(***************************************************************************)
C16_LinkIsEight ==
  \A n \in 0..(MaxAsmSteps + 1) :
    Assembled(CallSource, n) /\ cpu.halted => cpu.regs[31] = <<0, 8>>

(***************************************************************************)
(* C16 amended: that program halts, at its third Machine::step, with       *)
(* r31 = 0x0000_0004, the address of the HALT after the JAL, and           *)
(* PC = 0x0000_0004; it is not halted before the third step.               *)
(***************************************************************************)
C16_LinkIsFour ==
  \A n \in 0..(MaxAsmSteps + 1) :
    Assembled(CallSource, n)
    => /\ cpu.halted <=> n >= 3
       /\ cpu.halted => cpu.regs[31] = <<0, 4>> /\ cpu.pc = <<0, 4>>

\* the program has just halted, the step before having returned through r31
C16_Witness ==
  /\ Assembled(CallSource, 3) /\ cpu.halted
  /\ last.fresh /\ last.kind = "machine" /\ ~last.cpu.halted
  /\ last.cpu.pc = <<0, 4>> /\ last.cpu.regs[31] = <<0, 4>>


(***************************************************************************)
(* C17 as claimed: the program `ADDI r1,r0,1; BEQ r1,r0,skip;              *)
(* ADDI r2,r0,7; skip: HALT`, assembled at 0 and run from reset until the  *)
(* CPU halts, ends with r1 = 1 and r2 = 0.                                 *)
(***************************************************************************)
C17_BranchSkips ==
  \A n \in 0..(MaxAsmSteps + 1) :
    Assembled(BranchSource, n) /\ cpu.halted
    => cpu.regs[1] = <<0, 1>> /\ cpu.regs[2] = Zero32

(***************************************************************************)
(* C17 amended: that program halts, at its fourth Machine::step, with      *)
(* r1 = 1 and r2 = 7: r1 differs from r0, the BEQ is not taken and the     *)
(* ADDI after it is executed.                                              *)
(***************************************************************************)
C17_BranchFallsThrough ==
  \A n \in 0..(MaxAsmSteps + 1) :
    Assembled(BranchSource, n)
    => /\ cpu.halted <=> n >= 4
       /\ cpu.halted => cpu.regs[1] = <<0, 1>> /\ cpu.regs[2] = <<0, 7>>
       /\ n = 2 => cpu.pc = <<0, 8>>

\* the program has just halted at skip, after the ADDI r2 at 8
C17_Witness ==
  /\ Assembled(BranchSource, 4) /\ cpu.halted
  /\ last.fresh /\ last.kind = "machine" /\ ~last.cpu.halted
  /\ last.cpu.pc = <<0, 12>> /\ last.prev.pc = <<0, 8>> /\ last.prev.executed


\* the word the step before the most recent one fetched
PrevInstr == Decode(last.prev.raw)

\* the most recent step executed op directly after an executed prevOp with
\* the same base register and offset
ExecutedAfter(op, prevOp) ==
  /\ Executed /\ LastInstr.opcode = op
  /\ last.prev.kind = "machine" /\ last.prev.executed
  /\ PrevInstr.opcode = prevOp
  /\ PrevInstr.rs = LastInstr.rs /\ PrevInstr.imm16 = LastInstr.imm16

\* the scenario's program after n Machine::step calls; its SW replaces the
\* word at 0
StoreLoadScenario(n) ==
  /\ nloads = 1 /\ nsteps = n
  /\ \A o \in 4..15 :
       MemGet(bus.ram, o) = MemGet(Image(StoreLoadSource), o)

(***************************************************************************)
(* C18: an executed SW of v to a 4-aligned RAM address a leaves a reading  *)
(* v with load32 and the bytes of v, least significant first, at a..a+3    *)
(* with load8, and an LW from a executed next yields v; an executed SB of  *)
(* v to a RAM address leaves there v's low byte and every other byte of    *)
(* RAM and every device as it was, and an LB from there executed next      *)
(* yields that byte sign-extended.  The program `ADDI r1, r0, 0x1234;      *)
(* SW r1, 0(r0); LW r2, 0(r0); HALT` at 0 halts with r1 = r2 = 0x1234 and  *)
(* bytes 34 12 00 00 at 0.                                                 *)
(***************************************************************************)
C18_StoreLoadRoundTrip ==
  /\ Executed /\ LastInstr.opcode = OP_SW
       /\ EffAddr[2] % 4 = 0 /\ LeU32(EffAddr, RAM_END)
     => LET v == last.cpu.regs[LastInstr.rd]
        IN  /\ Load32(bus, EffAddr) = [res |-> OkRes, val |-> v]
            /\ \A i \in 0..3 :
                 Load8(bus, Add32(EffAddr, <<0, i>>))
                   = [res |-> OkRes, val |-> ByteOf(v, i)]
  /\ ExecutedAfter(OP_LW, OP_SW) /\ LastInstr.rd # 0
       /\ EffAddr[2] % 4 = 0 /\ LeU32(EffAddr, RAM_END)
     => cpu.regs[LastInstr.rd] = last.cpu.regs[PrevInstr.rd]
  /\ Executed /\ LastInstr.opcode = OP_SB /\ LeU32(EffAddr, RAM_END)
     => /\ Load8(bus, EffAddr)
             = [res |-> OkRes, val |-> ByteOf(last.cpu.regs[LastInstr.rd], 0)]
        /\ \A o \in ((DOMAIN bus.ram) \cup (DOMAIN last.bus.ram))
                       \ {Offset(EffAddr)} :
             MemGet(bus.ram, o) = MemGet(last.bus.ram, o)
        /\ bus = [last.bus EXCEPT !.ram = bus.ram]
  /\ ExecutedAfter(OP_LB, OP_SB) /\ LastInstr.rd # 0
       /\ LeU32(EffAddr, RAM_END)
     => cpu.regs[LastInstr.rd]
          = SignExtend8(ByteOf(last.cpu.regs[PrevInstr.rd], 0))
  /\ \A n \in 0..(MaxAsmSteps + 1) :
       StoreLoadScenario(n)
       => /\ cpu.halted <=> n >= 4
          /\ cpu.halted
             => /\ cpu.regs[1] = <<0, 4660>> /\ cpu.regs[2] = <<0, 4660>>
                /\ Load8(bus, <<0, 0>>).val = 52 /\ Load8(bus, <<0, 1>>).val = 18
                /\ Load8(bus, <<0, 2>>).val = 0 /\ Load8(bus, <<0, 3>>).val = 0

\* 0xDEAD_BEEF was stored to the last word of RAM and read back, its low
\* byte then stored to the word's top byte and read back as 0xFFFF_FFEF
C18_Witness ==
  /\ ExecutedAfter(OP_LB, OP_SB) /\ LastInstr.imm16 = 3
  /\ last.cpu.regs[LastInstr.rs] = <<15, 65532>>
  /\ cpu.regs[1] = <<57005, 48879>> /\ cpu.regs[2] = <<57005, 48879>>
  /\ cpu.regs[4] = <<65535, 65519>>
  /\ Load32(bus, <<15, 65532>>).val = <<61357, 48879>>


\* the literal denotes a value in -32768..32767
FitsSigned16(arg) ==
  /\ arg.mag[1] = 0
  /\ arg.mag[2] <= (IF arg.form \in {"negdec", "neghex"} THEN 32768 ELSE 32767)

(***************************************************************************)
(* C19: for every literal the assembler accepts in `li r1, imm; HALT`,     *)
(* the program run to its halt leaves r1 = imm (mod 2^32); the expansion   *)
(* is the single ADDI when imm is in -32768..32767 and LUI, ORI otherwise. *)
(***************************************************************************)
C19_LiLoadsLiteral ==
  \A l \in LiLiterals :
    \A n \in 0..(MaxAsmSteps + 1) :
      Assembled(LiSource(l), n)
      => /\ cpu.halted => cpu.regs[1] = LitValue(l)
         /\ LET words == Assemble(LiSource(l)).mem
            IN  IF FitsSigned16(l)
                THEN /\ Len(words) = 2
                     /\ Decode(words[1].word).opcode = OP_ADDI
                ELSE /\ Len(words) = 3
                     /\ Decode(words[1].word).opcode = OP_LUI
                     /\ Decode(words[2].word).opcode = OP_ORI


(***************************************************************************)
(* C20: `la rd, label` assembles to exactly LUI rd, hi16; ORI rd, rd, lo16 *)
(* of the label's address; the first pass advances the address by 8 for    *)
(* it, so a label defined after pseudo-ops is the address of the word      *)
(* emitted there; and the program run to its halt leaves rd = the label's  *)
(* address, forward or backward, with bit 15 or bit 31 set or not.         *)
(***************************************************************************)
C20_LaLoadsAddress ==
  /\ \A a \in FarAddrs :
       LET asm == Assemble(LaForwardSource(a))
       IN  /\ asm.ok /\ Len(asm.mem) = 3 /\ asm.labels["far"] = a
           /\ asm.mem[1] = [addr |-> Zero32, word |-> EncI(OP_LUI, 1, 0, a[1])]
           /\ asm.mem[2] = [addr |-> <<0, 4>>, word |-> EncI(OP_ORI, 1, 1, a[2])]
           /\ asm.mem[3] = [addr |-> <<0, 8>>, word |-> EncI(OP_HALT, 0, 0, 0)]
           /\ \A n \in 0..(MaxAsmSteps + 1) :
                Assembled(LaForwardSource(a), n)
                => /\ cpu.halted <=> n >= 3
                   /\ n >= 2 => cpu.regs[1] = a
  /\ LET asm == Assemble(LaBackwardSource)
     IN  /\ asm.ok /\ Len(asm.mem) = 7
         /\ asm.labels["here"] = <<0, 8>> /\ asm.labels["end"] = <<0, 24>>
         /\ asm.mem[3] = [addr |-> <<0, 8>>, word |-> EncI(OP_LUI, 1, 0, 0)]
         /\ asm.mem[4] = [addr |-> <<0, 12>>, word |-> EncI(OP_ORI, 1, 1, 8)]
         /\ asm.mem[5] = [addr |-> <<0, 16>>, word |-> EncI(OP_LUI, 2, 0, 0)]
         /\ asm.mem[6] = [addr |-> <<0, 20>>, word |-> EncI(OP_ORI, 2, 2, 24)]
         /\ asm.mem[7] = [addr |-> <<0, 24>>, word |-> EncI(OP_HALT, 0, 0, 0)]
         /\ \A n \in 0..(MaxAsmSteps + 1) :
              Assembled(LaBackwardSource, n)
              => /\ cpu.halted <=> n >= 7
                 /\ cpu.halted
                    => /\ cpu.regs[1] = <<0, 8>> /\ cpu.regs[2] = <<0, 24>>
                       /\ cpu.pc = <<0, 24>>

\* the forward reference to a label at 0x8000_8000 has been loaded into r1
\* and the program has halted
C20_Witness ==
  /\ Assembled(LaForwardSource(<<32768, 32768>>), 3) /\ cpu.halted
  /\ cpu.regs[1] = <<32768, 32768>> /\ cpu.pc = <<0, 8>>
  /\ last.fresh /\ last.prev.executed
  /\ Decode(last.prev.raw).opcode = OP_ORI


(***************************************************************************)
(* C21: for a branch the assembler emits at address E to a label at a      *)
(* 4-aligned address L within reach, forward or backward, the imm16 field  *)
(* of the emitted word, sign-extended, is (L - (E + 4)) / 4, and the CPU   *)
(* taking that branch at PC = E continues at PC = L.                       *)
(***************************************************************************)
C21_BranchRoundTrip ==
  \A br \in TakenBranches : \A t \in BranchTrips :
    LET src == BranchTripSource(br, t[1], t[2])
        asm == Assemble(src)
    IN  /\ asm.ok /\ ~asm.panics
        /\ asm.mem[3].addr = t[1]
        /\ Decode(asm.mem[3].word).opcode = BranchOp(br[1])
        /\ 4 * Disp(Decode(asm.mem[3].word).imm16)
             = Signed(t[2]) - Signed(Add32(t[1], <<0, 4>>))
        /\ \A n \in 0..(MaxAsmSteps + 1) :
             Assembled(src, n)
             => /\ n = 2 => cpu.pc = t[1]
                /\ n = 3 => cpu.pc = t[2] /\ Executed
                            /\ LastInstr.opcode = BranchOp(br[1])
                            /\ last.cpu.pc = t[1]
                /\ cpu.halted <=> n >= 4

\* the farthest backward branch, 32768 words, has just been taken
C21_Witness ==
  /\ Assembled(BranchTripSource(<<"blt", 0, 1>>, <<2, 256>>, <<0, 260>>), 3)
  /\ Executed /\ LastInstr.opcode = OP_BLT /\ LastInstr.imm16 = 32768
  /\ last.cpu.pc = <<2, 256>> /\ cpu.pc = <<0, 260>>


(***************************************************************************)
(* The assembler called on its own: the host runs assemble_nv32 on a       *)
(* source text and gets Ok(segments), Err(e) or, in a build with overflow  *)
(* checks, a panic.  last holds the call and its outcome.                  *)
(***************************************************************************)
\* what a build makes of an assembly: returned says that assemble_nv32
\* returned, which a build with overflow checks does not do when it panics
BuildOutcome(asm, overflow_checks) ==
  IF overflow_checks /\ asm.panics
  THEN [returned |-> FALSE, ok |-> FALSE, err |-> "", mem |-> <<>>]
  ELSE [returned |-> TRUE, ok |-> asm.ok, err |-> asm.err,
        mem |-> IF asm.ok THEN asm.mem ELSE <<>>]

AsmOutcome(src, overflow_checks) ==
  BuildOutcome(Assemble(src), overflow_checks)

\* branch address E and label address L, near and far
FarTrips ==
  {<<(<<0, 0>>), (<<0, 4>>)>>, <<(<<0, 0>>), (<<0, 0>>)>>,
   <<(<<0, 256>>), (<<2, 256>>)>>, <<(<<0, 256>>), (<<2, 260>>)>>,
   <<(<<2, 256>>), (<<0, 260>>)>>, <<(<<2, 256>>), (<<0, 256>>)>>,
   <<(<<0, 0>>), (<<15, 65532>>)>>, <<(<<15, 65532>>), (<<0, 0>>)>>,
   <<(<<0, 0>>), (<<32767, 65532>>)>>, <<(<<32767, 65532>>), (<<0, 0>>)>>,
   <<(<<0, 0>>), (<<32768, 0>>)>>, <<(<<32768, 0>>), (<<0, 0>>)>>,
   <<(<<32767, 65528>>), (<<32768, 4>>)>>,
   <<(<<32768, 0>>), (<<32767, 65532>>)>>,
   <<(<<32767, 0>>), (<<32768, 0>>)>>, <<(<<32768, 0>>), (<<32767, 0>>)>>,
   <<(<<0, 4>>), (<<65535, 65532>>)>>, <<(<<65535, 65528>>), (<<0, 4>>)>>,
   <<(<<65535, 65532>>), (<<0, 8>>)>>, <<(<<65535, 0>>), (<<65535, 65532>>)>>,
   <<(<<16384, 0>>), (<<49152, 0>>)>>, <<(<<49152, 0>>), (<<16384, 0>>)>>}

\* .org E; site: Bxx ra, rb, target; .org L; target:
FarBranchSource(br, e, l) ==
  <<Ln("", ".org", 0, 0, Lit("hex", e[1], e[2])),
    Ln("site", br[1], br[2], br[3], Name("target")),
    Ln("", ".org", 0, 0, Lit("hex", l[1], l[2])),
    Ln("target", "", 0, 0, NoArg)>>

\* the host assembles a far branch with one build or the other
AssembleCall(br, e, l, overflow_checks) ==
  /\ last.kind # "asm"
  /\ last' = [fresh |-> TRUE, kind |-> "asm", cpu |-> cpu, bus |-> bus,
              bus0 |-> bus, irq |-> NoIrq, res |-> OkRes, prev |-> NoStep,
              br |-> br, e |-> e, l |-> l,
              overflow_checks |-> overflow_checks,
              out |-> AsmOutcome(FarBranchSource(br, e, l), overflow_checks)]
  /\ UNCHANGED <<cpu, bus, nloads, nsteps>>

NextEncode ==
  \E br \in TakenBranches : \E t \in FarTrips : \E oc \in BOOLEAN :
    AssembleCall(br, t[1], t[2], oc)

SpecEncode == Init /\ [][NextEncode]_vars

(***************************************************************************)
(* C22: for a branch at address E and its label at L, anywhere in the      *)
(* 32-bit range, the assembler returns: either the word whose imm16,       *)
(* sign-extended, is a displacement d with E + 4 + 4 d = L (mod 2^32), or  *)
(* the error InvalidImmediate; it never panics.                            *)
(***************************************************************************)
C22_EncodesOrRejects ==
  last.kind = "asm"
  => /\ last.out.returned
     /\ IF last.out.ok
        THEN LET d == Disp(Decode(last.out.mem[1].word).imm16)
             IN  PcPlus(Add32(last.e, <<0, 4>>), 4 * d) = last.l
        ELSE last.out.err = "InvalidImmediate"



\* the condition of `mn a, b, label` on the values of a and b
ConditionHolds(mn, a, b) ==
  CASE mn = "beq" -> a = b
    [] mn = "bne" -> a # b
    [] mn = "blt" -> Signed(a) < Signed(b)
    [] mn = "bge" -> Signed(a) >= Signed(b)

(***************************************************************************)
(* C23: the assembler and the CPU agree on the operands of a branch: for   *)
(* `Bxx a, b, label` the emitted word has a in bits 25..21 (rd) and b in   *)
(* bits 20..16 (rs), and executing it the CPU takes BEQ iff regs[a] =      *)
(* regs[b], BNE iff regs[a] # regs[b], BLT iff regs[a] < regs[b] and BGE   *)
(* iff regs[a] >= regs[b], the last two as signed 32-bit values.           *)
(***************************************************************************)
C23_BranchOperands ==
  \A mn \in BranchMnemonics : \A x \in OperandValues : \A y \in OperandValues :
    LET src == OperandSource(mn, x, y)
        word == Decode(Assemble(src).mem[5].word)
    IN  /\ Assemble(src).ok
        /\ word.opcode = BranchOp(mn) /\ word.rd = 1 /\ word.rs = 2
        /\ Assembled(src, 5)
           => /\ Executed /\ LastInstr = word
              /\ last.cpu.pc = <<0, 16>>
              /\ last.cpu.regs[1] = x /\ last.cpu.regs[2] = y
              /\ cpu.pc = IF ConditionHolds(mn, x, y) THEN <<0, 24>>
                          ELSE <<0, 20>>

\* BLT r1, r2 with r1 = 0x8000_0000 (the least signed value) and r2 = 1 has
\* just been taken: as unsigned values r1 > r2
C23_Witness ==
  /\ Assembled(OperandSource("blt", <<32768, 0>>, <<0, 1>>), 5)
  /\ Executed /\ LastInstr.opcode = OP_BLT
  /\ LastInstr.rd = 1 /\ LastInstr.rs = 2
  /\ last.cpu.regs[1] = <<32768, 0>> /\ last.cpu.regs[2] = <<0, 1>>
  /\ cpu.pc = <<0, 24>>



(***************************************************************************)
(* The NV32 object file: nvasm's write_nv32 turns the assembler's segments *)
(* into bytes, nova3201_cli's load_nv32 reads the bytes and stores every   *)
(* word through the bus.                                                   *)
(***************************************************************************)
\* u16::to_le_bytes and u32::to_le_bytes
U16Le(n) == <<n % 256, n \div 256>>

U32Le(w) == <<ByteOf(w, 0), ByteOf(w, 1), ByteOf(w, 2), ByteOf(w, 3)>>

\* b"NV32"
Nv32Magic == <<78, 86, 51, 50>>

CodeData(base, words) ==
  [kind |-> "CodeData", base_addr |-> base, length_words |-> <<0, Len(words)>>,
   words |-> words]

Bss(base, len) ==
  [kind |-> "Bss", base_addr |-> base, length_words |-> len, words |-> <<>>]

RECURSIVE Payload(_)
Payload(words) ==
  IF words = <<>> THEN <<>> ELSE U32Le(Head(words)) \o Payload(Tail(words))

\* mutant of SegmentBytes: length_words is written before base_addr
SegmentBytes_LengthFirst(seg) ==
  <<IF seg.kind = "CodeData" THEN 0 ELSE 1, 0>> \o U16Le(0)
    \o U32Le(seg.length_words) \o U32Le(seg.base_addr) \o U32Le(Zero32)
    \o (IF seg.kind = "CodeData" THEN Payload(seg.words) ELSE <<>>)

\* one segment as write_nv32 writes it: the 16-byte header, then the words
\* of a code/data segment
SegmentBytes(seg) ==
  <<IF seg.kind = "CodeData" THEN 0 ELSE 1, 0>> \o U16Le(0)
    \o U32Le(seg.base_addr) \o U32Le(seg.length_words) \o U32Le(Zero32)
    \o (IF seg.kind = "CodeData" THEN Payload(seg.words) ELSE <<>>)

RECURSIVE SegmentsBytes(_)
SegmentsBytes(segments) ==
  IF segments = <<>> THEN <<>>
  ELSE SegmentBytes(Head(segments)) \o SegmentsBytes(Tail(segments))

\* write_nv32; the count is segments.len() as u16
WriteNv32(segments) ==
  Nv32Magic \o U16Le(1) \o U16Le(Len(segments) % Half) \o U32Le(Zero32)
    \o SegmentsBytes(segments)

\* the rest of a byte sequence after its first n bytes
Skip(bytes, n) == SubSeq(bytes, n + 1, Len(bytes))

\* the loop over buf.chunks_exact(4): word i of the payload is stored at
\* addr = base_addr + 4 i, and the first failing store ends the load
RECURSIVE StoreChunks(_, _, _, _)
StoreChunks(b, addr, bytes, n) ==
  IF n = 0 THEN [ok |-> TRUE, bus |-> b]
  ELSE LET w == FromLeBytes(bytes[1], bytes[2], bytes[3], bytes[4])
           r == Store32(b, addr, w)
       IN  IF r.res.tag # "Ok" THEN [ok |-> FALSE, bus |-> r.bus]
           ELSE StoreChunks(r.bus, Add32(addr, <<0, 4>>), Skip(bytes, 4), n - 1)

\* the loop `for i in 0..size_words` of a BSS segment
RECURSIVE ZeroFill(_, _, _)
ZeroFill(b, addr, size_words) ==
  IF size_words = Zero32 THEN [ok |-> TRUE, bus |-> b]
  ELSE LET r == Store32(b, addr, Zero32)
       IN  IF r.res.tag # "Ok" THEN [ok |-> FALSE, bus |-> r.bus]
           ELSE ZeroFill(r.bus, Add32(addr, <<0, 4>>),
                         Sub32(size_words, <<0, 1>>))

LoadError(kind, b, read) == [ok |-> FALSE, err |-> kind, bus |-> b, read |-> read]

\* the loop `for _ in 0..count` of load_nv32; read collects kind, base_addr
\* and size_words of the segment headers read.  A payload longer than the
\* rest of the file makes read_exact fail.
RECURSIVE LoadSegments(_, _, _, _)
LoadSegments(b, bytes, count, read) ==
  IF count = 0 THEN [ok |-> TRUE, err |-> "", bus |-> b, read |-> read]
  ELSE IF Len(bytes) < 16 THEN LoadError("UnexpectedEof", b, read)
  ELSE
    LET kind == bytes[1]
        base_addr == FromLeBytes(bytes[5], bytes[6], bytes[7], bytes[8])
        size_words == FromLeBytes(bytes[9], bytes[10], bytes[11], bytes[12])
        rest == Skip(bytes, 16)
        read1 == Append(read, [kind |-> kind, base_addr |-> base_addr,
                               size_words |-> size_words])
        buf_len == Shl32(size_words, 2)
    IN  CASE kind = 0 /\ size_words[1] >= 16384 ->
               \* size_words * 4 overflows u32: a panic or a wrapped length,
               \* as the build decides; no file of the model gets here
               LoadError("Overflow", b, read1)
          [] kind = 0 /\ size_words[1] < 16384 ->
               IF buf_len[1] # 0 \/ buf_len[2] > Len(rest)
               THEN LoadError("UnexpectedEof", b, read1)
               ELSE LET r == StoreChunks(b, base_addr, rest, buf_len[2] \div 4)
                    IN  IF ~r.ok THEN LoadError("Other", r.bus, read1)
                        ELSE LoadSegments(r.bus, Skip(rest, buf_len[2]),
                                          count - 1, read1)
          [] kind = 1 ->
               LET r == ZeroFill(b, base_addr, size_words)
               IN  IF ~r.ok THEN LoadError("Other", r.bus, read1)
                   ELSE LoadSegments(r.bus, rest, count - 1, read1)
          [] OTHER -> LoadError("InvalidData", b, read1)

\* load_nv32 on the bytes of a file
LoadNv32(b, file) ==
  IF Len(file) < 12 THEN LoadError("UnexpectedEof", b, <<>>)
  ELSE IF SubSeq(file, 1, 4) # Nv32Magic THEN LoadError("InvalidData", b, <<>>)
  ELSE IF file[5] + 256 * file[6] # 1 THEN LoadError("InvalidData", b, <<>>)
  ELSE LoadSegments(b, Skip(file, 12), file[7] + 256 * file[8], <<>>)

\* Segment lists as assemble_nv32 returns them: code/data segments are
\* maximal runs of consecutive words, BSS segments are what .bss reserved
\* wherever the PC was, and the list is sorted by base_addr.
SegmentPool ==
  {CodeData(Zero32, <<(<<4660, 22136>>), (<<57005, 48879>>)>>),
   CodeData(<<0, 512>>, <<(<<0, 1>>), (<<32768, 0>>), (<<65535, 65535>>)>>),
   CodeData(<<15, 65532>>, <<(<<4660, 22136>>)>>),
   CodeData(<<15, 65532>>, <<(<<4660, 22136>>), (<<57005, 48879>>)>>),
   CodeData(VRAM_BASE, <<(<<4660, 22136>>)>>),
   CodeData(TIMER1_PERIOD, <<(<<0, 5>>)>>),
   CodeData(<<0, 1026>>, <<(<<4660, 22136>>)>>),
   Bss(<<0, 4>>, <<0, 1>>), Bss(<<0, 256>>, Zero32), Bss(<<0, 512>>, <<0, 2>>),
   Bss(<<0, 768>>, <<0, 2>>), Bss(<<15, 65528>>, <<0, 3>>)}

\* the address after the last word of a segment, as a number
SegmentEnd(seg) == Offset(seg.base_addr) + 4 * seg.length_words[2]

\* b may follow a in the assembler's list
MayFollow(a, b) ==
  /\ LeU32(a.base_addr, b.base_addr)
  /\ a.base_addr = b.base_addr => a.kind = "CodeData" \/ b.kind = "Bss"
  /\ a.kind = "CodeData" /\ b.kind = "CodeData"
     => a.base_addr[1] < 32768 /\ b.base_addr[1] < 32768
        /\ SegmentEnd(a) < Offset(b.base_addr)

SegmentLists ==
  {<<>>} \cup {<<a>> : a \in SegmentPool}
    \cup {p \in SegmentPool \X SegmentPool :
            p[1] # p[2] /\ MayFollow(p[1], p[2])}

\* what is in RAM before the file is loaded
FillImages ==
  {[base |-> Zero32, words |-> <<(<<65535, 65535>>), (<<65535, 65535>>),
                                 (<<65535, 65535>>)>>],
   [base |-> <<0, 508>>, words |-> <<(<<0, 7>>), (<<0, 7>>), (<<0, 7>>),
                                     (<<0, 7>>), (<<0, 7>>)>>],
   [base |-> <<0, 768>>, words |-> <<(<<43690, 21845>>), (<<43690, 21845>>),
                                     (<<43690, 21845>>)>>]}

\* nvasm writes the segments to a file and nova3201_cli loads the file
Nv32Load(segments) ==
  /\ nsteps = 0
  /\ LET file == WriteNv32(segments)
         r == LoadNv32(bus, file)
     IN  /\ bus' = r.bus
         /\ last' = [fresh |-> TRUE, kind |-> "nv32", cpu |-> cpu, bus |-> bus,
                     bus0 |-> bus, irq |-> NoIrq, res |-> OkRes,
                     prev |-> NoStep, segments |-> segments, file |-> file,
                     out |-> [ok |-> r.ok, err |-> r.err, read |-> r.read]]
  /\ nsteps' = 1
  /\ UNCHANGED <<cpu, nloads>>

NextNv32 ==
  \/ \E img \in FillImages : LoadImage(img)
  \/ \E segments \in SegmentLists : Nv32Load(segments)

SpecNv32 == Init /\ [][NextNv32]_vars

\* the RAM offsets of a segment's words
SegmentRange(seg) ==
  {Offset(seg.base_addr) + o : o \in 0..(4 * seg.length_words[2] - 1)}

\* every segment is 4-aligned and within RAM and no two overlap
FitsRam(segments) ==
  /\ \A k \in 1..Len(segments) :
       /\ segments[k].base_addr[2] % 4 = 0
       /\ segments[k].base_addr[1] < 16
       /\ SegmentEnd(segments[k]) <= RAM_SIZE
  /\ \A j \in 1..Len(segments) : \A k \in 1..Len(segments) :
       j # k => SegmentRange(segments[j]) \cap SegmentRange(segments[k]) = {}

\* the file's header: magic, version 1, seg_count
HeaderWritten(file, segments) ==
  /\ Len(file) >= 12
  /\ SubSeq(file, 1, 4) = Nv32Magic
  /\ file[5] + 256 * file[6] = 1
  /\ file[7] + 256 * file[8] = Len(segments)

\* the loader read every segment's fields as they were and left its words
\* in memory: b0 is the bus before the load, b the bus after it
RoundTrip(segments, out, b0, b) ==
  /\ out.ok
  /\ Len(out.read) = Len(segments)
  /\ \A k \in 1..Len(segments) :
       LET seg == segments[k]
       IN  /\ out.read[k].kind = (IF seg.kind = "CodeData" THEN 0 ELSE 1)
           /\ out.read[k].base_addr = seg.base_addr
           /\ out.read[k].size_words = seg.length_words
           /\ \A i \in 0..(seg.length_words[2] - 1) :
                LET r == Load32(b, Add32(seg.base_addr, <<0, 4 * i>>))
                IN  /\ r.res.tag = "Ok"
                    /\ r.val = IF seg.kind = "CodeData" THEN seg.words[i + 1]
                               ELSE Zero32
  /\ \A off \in DOMAIN b0.ram \cup DOMAIN b.ram :
       (\A k \in 1..Len(segments) : off \notin SegmentRange(segments[k]))
       => MemGet(b.ram, off) = MemGet(b0.ram, off)
  /\ [b EXCEPT !.ram = b0.ram] = b0

(***************************************************************************)
(* C24 as claimed: every list of segments written by write_nv32 and read   *)
(* back by the loader keeps each segment's kind, base_addr and             *)
(* length_words, leaves word i of a kind-0 segment at base_addr + 4 i and  *)
(* zero-fills exactly length_words words for a kind-1 segment; the header  *)
(* carries the magic NV32, version 1 and the number of segments.           *)
(***************************************************************************)
C24_RoundTripEveryList ==
  last.kind = "nv32"
  => /\ HeaderWritten(last.file, last.segments)
     /\ RoundTrip(last.segments, last.out, last.bus0, bus)

(***************************************************************************)
(* C24 amended: the same for every list whose segments are 4-aligned, lie  *)
(* within RAM and do not overlap one another.                              *)
(***************************************************************************)
C24_RoundTripInRam ==
  last.kind = "nv32"
  => /\ HeaderWritten(last.file, last.segments)
     /\ FitsRam(last.segments)
        => RoundTrip(last.segments, last.out, last.bus0, bus)

\* a code segment at 0 and a BSS segment at 0x300 were loaded over RAM that
\* held other words at 0x300..0x30B: two of them are now 0, the third is not
C24_Witness ==
  /\ last.kind = "nv32"
  /\ last.segments = <<CodeData(Zero32, <<(<<4660, 22136>>), (<<57005, 48879>>)>>),
                       Bss(<<0, 768>>, <<0, 2>>)>>
  /\ last.out.ok /\ Len(last.file) = 52
  /\ Load32(last.bus0, <<0, 768>>).val = <<43690, 21845>>
  /\ Load32(bus, <<0, 768>>).val = Zero32
  /\ Load32(bus, <<0, 772>>).val = Zero32
  /\ Load32(bus, <<0, 776>>).val = <<43690, 21845>>
  /\ Load32(bus, <<0, 4>>).val = <<57005, 48879>>



(***************************************************************************)
(* The bus on its own: the host configures the devices, fills some RAM,    *)
(* lets Timer1 tick once and then calls one of load8, load32, store8 and   *)
(* store32 of NovaBus.  last holds the call: its operation, address and    *)
(* value, the bus before it (bus0), its result (res) and the value a load  *)
(* returned (val).                                                         *)
(***************************************************************************)
\* mutant of UartSetStatus: the written value is stored unmasked
UartSetStatus_Unmasked(u, val) ==
  [u EXCEPT !.status = val,
            !.irq = IF HasBit(val, IRQ_ENABLE) THEN u.irq ELSE FALSE]

\* Uart::set_status
UartSetStatus(u, val) ==
  LET status == And32(val, Not32(<<0, TX_READY + RX_AVAILABLE>>))
  IN  [u EXCEPT !.status = status,
                !.irq = IF HasBit(status, IRQ_ENABLE) THEN u.irq ELSE FALSE]

\* the host sets the UART's status before anything runs
UartSetStatusCall(val) ==
  /\ nsteps = 0 /\ nloads = 0
  /\ bus' = [bus EXCEPT !.uart = UartSetStatus(@, val)]
  /\ last' = [last EXCEPT !.fresh = FALSE]
  /\ UNCHANGED <<cpu, nloads, nsteps>>

\* addresses in every region, at their edges, between and beyond them
BusAddrs ==
  {Zero32, <<0, 5>>, <<0, 770>>, <<15, 65532>>, <<15, 65535>>,
   <<16, 0>>, <<16, 2>>, <<32767, 65535>>,
   VRAM_BASE, <<32768, 1>>, <<32768, 4095>>,
   FONT_BASE, <<32768, 4098>>, <<32768, 8191>>,
   <<32768, 8192>>, <<32768, 8193>>, <<32768, 8444>>, <<32768, 8447>>,
   TIMER1_CTRL, TIMER1_PERIOD, TIMER1_COUNT, TIMER1_RESET, TIMER1_ACK,
   TIMER2_CTRL, TIMER2_PERIOD, TIMER2_COUNT, TIMER2_RESET, TIMER2_ACK,
   UART_TX, UART_STATUS,
   <<32768, 8449>>, <<32768, 8454>>, <<32768, 8705>>, <<32768, 8711>>,
   <<32768, 8468>>, <<32768, 8469>>, <<32768, 8700>>, <<32768, 8712>>,
   <<32768, 8714>>, <<32768, 8956>>, <<32768, 8959>>,
   <<32768, 8960>>, <<32768, 8961>>, <<65535, 65532>>, <<65535, 65535>>}

BusBytes == {0, 128, 255}

BusWords == {Zero32, <<0, 128>>, <<0, 131>>, <<0, 5>>, <<65535, 65535>>}

StatusValues == {<<0, 128>>, <<0, 131>>, Zero32}

BusPeriods == {<<0, 1>>, <<0, 5>>}

BusRecord(op, addr, value, res, val) ==
  [fresh |-> TRUE, kind |-> "bus", cpu |-> cpu, bus |-> bus, bus0 |-> bus,
   irq |-> NoIrq, res |-> res, prev |-> NoStep,
   op |-> op, addr |-> addr, value |-> value, val |-> val]

BusLoad8(addr) ==
  /\ last.kind # "bus"
  /\ LET r == Load8(bus, addr)
     IN  last' = BusRecord("load8", addr, Zero32, r.res, <<0, r.val>>)
  /\ UNCHANGED <<cpu, bus, nloads, nsteps>>

BusLoad32(addr) ==
  /\ last.kind # "bus"
  /\ LET r == Load32(bus, addr)
     IN  last' = BusRecord("load32", addr, Zero32, r.res, r.val)
  /\ UNCHANGED <<cpu, bus, nloads, nsteps>>

BusStore8(addr, value) ==
  /\ last.kind # "bus"
  /\ LET r == Store8(bus, addr, value)
     IN  /\ bus' = r.bus
         /\ last' = BusRecord("store8", addr, <<0, value>>, r.res, Zero32)
  /\ UNCHANGED <<cpu, nloads, nsteps>>

BusStore32(addr, value) ==
  /\ last.kind # "bus"
  /\ LET r == Store32(bus, addr, value)
     IN  /\ bus' = r.bus
         /\ last' = BusRecord("store32", addr, value, r.res, Zero32)
  /\ UNCHANGED <<cpu, nloads, nsteps>>

NextBus ==
  \/ last.kind # "bus" /\ \E p \in BusPeriods : ConfigureTimer1(p)
  \/ last.kind # "bus" /\ \E p \in BusPeriods : ConfigureTimer2(p)
  \/ last.kind # "bus" /\ \E v \in StatusValues : UartSetStatusCall(v)
  \/ last.kind # "bus" /\ \E img \in FillImages : LoadImage(img)
  \/ last.kind # "bus" /\ nsteps = 0 /\ TimerTickCall
  \/ \E a \in BusAddrs : BusLoad8(a)
  \/ \E a \in BusAddrs : BusLoad32(a)
  \/ \E a \in BusAddrs : \E v \in BusBytes : BusStore8(a, v)
  \/ \E a \in BusAddrs : \E w \in BusWords : BusStore32(a, w)

SpecBus == Init /\ [][NextBus]_vars

\* the most recent call was operation op of the bus
BusCalled(ops) == last.fresh /\ last.kind = "bus" /\ last.op \in ops

(***************************************************************************)
(* C25: load32 and store32 on an address with addr & 3 # 0 fail with       *)
(* Misaligned(addr) in every region -- RAM, VRAM, font RAM, MMIO, unmapped *)
(* -- and change nothing in memory or in a device.                         *)
(***************************************************************************)
C25_MisalignedWord ==
  BusCalled({"load32", "store32"}) /\ last.addr[2] % 4 # 0
  => last.res = Misaligned(last.addr) /\ bus = last.bus0

\* store32 of 0xFFFF_FFFF two bytes into Timer1's PERIOD register, whose
\* period had been set and whose IRQ was pending
C25_Witness ==
  /\ BusCalled({"store32"}) /\ last.addr = <<32768, 8454>>
  /\ last.value = <<65535, 65535>>
  /\ last.bus0.timer1.period = <<0, 1>> /\ last.bus0.timer1.irq
  /\ last.res.tag = "Misaligned" /\ bus.timer1 = last.bus0.timer1

\* the address is in none of the four regions, or in the MMIO window in a
\* word that is not a defined register
Unmapped(a) ==
  \/ ~(\/ LeU32(a, RAM_END)
       \/ InRange(a, VRAM_BASE, VRAM_SIZE)
       \/ InRange(a, FONT_BASE, FONT_SIZE)
       \/ InMmio(a))
  \/ InMmio(a) /\ Align4(a) \notin MmioRegisters

AnyBusOp == {"load8", "load32", "store8", "store32"}

(***************************************************************************)
(* C26 as claimed: every bus operation on an address outside RAM, VRAM,    *)
(* font RAM and the MMIO window, or inside the window but not in a defined *)
(* register, fails with OutOfBounds carrying that address and changes no   *)
(* memory or device state.                                                 *)
(***************************************************************************)
C26_OutOfBoundsCarriesAddr ==
  BusCalled(AnyBusOp) /\ Unmapped(last.addr)
  => last.res = OutOfBounds(last.addr) /\ bus = last.bus0

(***************************************************************************)
(* C26 amended: every such operation fails and changes no memory or device *)
(* state; load32 and store32 on a non-4-aligned address fail with          *)
(* Misaligned(addr), every other operation with OutOfBounds, which carries *)
(* the address, or for load8 and store8 inside the MMIO window the address *)
(* of the aligned word, addr & ~3.                                         *)
(***************************************************************************)
C26_UnmappedFails ==
  BusCalled(AnyBusOp) /\ Unmapped(last.addr)
  => /\ bus = last.bus0
     /\ last.res =
          IF last.op \in {"load32", "store32"} /\ last.addr[2] % 4 # 0
          THEN Misaligned(last.addr)
          ELSE IF last.op \in {"load8", "store8"} /\ InMmio(last.addr)
          THEN OutOfBounds(Align4(last.addr))
          ELSE OutOfBounds(last.addr)

\* store8 to 0x8000_2115, in the undefined word after Timer1's ACK, with a
\* Timer1 IRQ pending: the error carries 0x8000_2114
C26_Witness ==
  /\ BusCalled({"store8"}) /\ last.addr = <<32768, 8469>>
  /\ last.bus0.timer1.irq
  /\ last.res = OutOfBounds(<<32768, 8468>>)
  /\ bus = last.bus0

\* the registers a store has an effect on
WritableRegisters ==
  {TIMER1_CTRL, TIMER1_PERIOD, TIMER1_RESET, TIMER1_ACK,
   TIMER2_CTRL, TIMER2_PERIOD, TIMER2_RESET, TIMER2_ACK, UART_TX}

(***************************************************************************)
(* C27: store32 to a defined MMIO register -- a timer's CTRL, PERIOD,      *)
(* RESET or ACK, or UART TX -- performs the device write and returns       *)
(* success, not a bus error.                                               *)
(***************************************************************************)
C27_MmioStoreSucceeds ==
  BusCalled({"store32"}) /\ last.addr \in WritableRegisters
  => /\ bus = MmioWrite32(last.bus0, last.addr, last.value).bus
     /\ last.res.tag = "Ok"

(***************************************************************************)
(* C28: UART STATUS can be written and read over the bus: after a store to *)
(* 0x8000_2204 a load of STATUS shows IRQ_ENABLE (bit 7) set if the stored *)
(* value had it set and clear if it had it clear.                          *)
(***************************************************************************)
C28_StatusWritable ==
  BusCalled({"store8", "store32"}) /\ last.addr = UART_STATUS
  => LET r == Load32(bus, UART_STATUS)
     IN  /\ r.res.tag = "Ok"
         /\ HasBit(r.val, IRQ_ENABLE) <=> HasBit(last.value, IRQ_ENABLE)


(***************************************************************************)
(* C29: a two-operand ALU register instruction `OP rd, rs` of the          *)
(* assembler (add, sub, and, or, xor, slt, sltu, shl, shr, sar), assembled *)
(* and executed by the CPU, leaves rd = rd OP rs.                          *)
(***************************************************************************)
C29_TwoOperandAlu ==
  \A mn \in AluRegMnemonics : \A x \in AluValues : \A y \in AluValues :
    Assembled(AluSource(mn, x, y), 5)
    => /\ Executed /\ LastInstr.opcode = AluRegOp(mn)
       /\ last.cpu.regs[1] = x /\ last.cpu.regs[2] = y
       /\ cpu.regs[1] = AluReg(AluRegOp(mn), x, y)



\* mutant of UartReadRx: the read leaves irq asserted
UartReadRx_KeepIrq(u) ==
  [val |-> IF u.rx_buffer = <<>> THEN 0 ELSE u.rx_buffer[1],
   uart |-> [u EXCEPT !.rx_buffer = <<>>,
                      !.status = And32(u.status, Not32(<<0, RX_AVAILABLE>>))]]

(***************************************************************************)
(* The UART's receive side on its own: bytes arrive at the backend, and    *)
(* the host calls Uart::tick, Uart::read_rx and Uart::set_status in any    *)
(* order.  last holds the call (op), the UART before it (bus0.uart), what  *)
(* read_rx returned (ret), every byte that has arrived so far (input) and  *)
(* the bytes returned by the read_rx calls made with RX_AVAILABLE set      *)
(* (returned).  nloads counts the bytes that arrived.                      *)
(***************************************************************************)
\* Uart::read_rx: the byte returned and the UART afterwards
UartReadRx(u) ==
  [val |-> IF u.rx_buffer = <<>> THEN 0 ELSE u.rx_buffer[1],
   uart |-> [u EXCEPT !.rx_buffer = <<>>,
                      !.status = And32(u.status, Not32(<<0, RX_AVAILABLE>>)),
                      !.irq = FALSE]]

RxInput == IF last.kind = "rx" THEN last.input ELSE <<>>

RxReturned == IF last.kind = "rx" THEN last.returned ELSE <<>>

RxRecord(op, ret, input, returned) ==
  [fresh |-> TRUE, kind |-> "rx", cpu |-> cpu, bus |-> bus, bus0 |-> bus,
   irq |-> NoIrq, res |-> OkRes, prev |-> NoStep,
   op |-> op, ret |-> ret, input |-> input, returned |-> returned]

\* the backend receives a byte from outside
RxBackendByte(v) ==
  /\ bus' = [bus EXCEPT !.uart.rx = Append(@, v)]
  /\ last' = RxRecord("arrive", 0, Append(RxInput, v), RxReturned)
  /\ nloads' = nloads + 1
  /\ UNCHANGED <<cpu, nsteps>>

RxTickCall ==
  /\ bus' = [bus EXCEPT !.uart = UartTick(@)]
  /\ last' = RxRecord("tick", 0, RxInput, RxReturned)
  /\ UNCHANGED <<cpu, nloads, nsteps>>

RxReadCall ==
  /\ LET r == UartReadRx(bus.uart)
     IN  /\ bus' = [bus EXCEPT !.uart = r.uart]
         /\ last' = RxRecord("read_rx", r.val, RxInput,
                             IF HasBit(bus.uart.status, RX_AVAILABLE)
                             THEN Append(RxReturned, r.val) ELSE RxReturned)
  /\ UNCHANGED <<cpu, nloads, nsteps>>

RxSetStatusCall(val) ==
  /\ bus' = [bus EXCEPT !.uart = UartSetStatus(@, val)]
  /\ last' = RxRecord("set_status", 0, RxInput, RxReturned)
              @@ [value |-> val]
  /\ UNCHANGED <<cpu, nloads, nsteps>>

RxWriteCall(b) ==
  /\ bus' = [bus EXCEPT !.uart = UartWriteTx(@, b)]
  /\ last' = RxRecord("write_tx", 0, RxInput, RxReturned)
  /\ UNCHANGED <<cpu, nloads, nsteps>>

NextRx ==
  \/ nloads < MaxRx /\ \E v \in RxBytes : RxBackendByte(v)
  \/ RxTickCall
  \/ RxReadCall
  \/ Len(bus.uart.tx) < MaxRxWrites /\ RxWriteCall(65)
  \/ \E v \in StatusValues : RxSetStatusCall(v)

SpecRx == Init /\ [][NextRx]_vars

\* s is a prefix of t
IsPrefix(s, t) == Len(s) <= Len(t) /\ s = SubSeq(t, 1, Len(s))

\* the most recent call was op of the UART
RxCalled(op) == last.kind = "rx" /\ last.op = op

(***************************************************************************)
(* C30: UART receive never loses or reorders input: tick does not read the *)
(* backend while rx_buffer is occupied; at every moment the bytes returned *)
(* by the read_rx calls made while RX_AVAILABLE was set are a prefix of    *)
(* the bytes that arrived at the backend; read_rx on an empty buffer       *)
(* returns 0; every read_rx clears RX_AVAILABLE and irq.                   *)
(***************************************************************************)
C30_ReceiveInOrder ==
  /\ IsPrefix(RxReturned, RxInput)
  /\ RxCalled("tick") /\ last.bus0.uart.rx_buffer # <<>>
     => bus.uart.rx = last.bus0.uart.rx
  /\ RxCalled("read_rx") /\ last.bus0.uart.rx_buffer = <<>> => last.ret = 0
  /\ RxCalled("read_rx")
     => ~HasBit(bus.uart.status, RX_AVAILABLE) /\ ~bus.uart.irq

(***************************************************************************)
(* C31: a write to the UART status register (Uart::set_status) never sets  *)
(* TX_READY or RX_AVAILABLE through the written value; a write in which    *)
(* IRQ_ENABLE is clear leaves irq false whatever it was before; a write    *)
(* that keeps IRQ_ENABLE set leaves a pending irq asserted.                *)
(***************************************************************************)
C31_StatusWrite ==
  RxCalled("set_status") =>
    /\ ~HasBit(bus.uart.status, TX_READY)
    /\ ~HasBit(bus.uart.status, RX_AVAILABLE)
    /\ ~HasBit(last.value, IRQ_ENABLE) => ~bus.uart.irq
    /\ HasBit(last.value, IRQ_ENABLE) /\ last.bus0.uart.irq => bus.uart.irq

\* the value written has both read-only bits set and keeps IRQ_ENABLE, and
\* an irq was pending
C31_Witness ==
  /\ RxCalled("set_status")
  /\ HasBit(last.value, TX_READY) /\ HasBit(last.value, RX_AVAILABLE)
  /\ HasBit(last.value, IRQ_ENABLE)
  /\ last.bus0.uart.irq /\ bus.uart.irq

(***************************************************************************)
(* The timer registers: software stores words to the ten timer registers   *)
(* through NovaBus::store32 and the timers tick (Timer::tick), in any      *)
(* order.  last holds the call (op, and for a store its addr and value),   *)
(* the bus before it (bus0) and, for each timer, the one-shot run it is    *)
(* in (shot): whether its registers were last left at EN|IE|ONESHOT,       *)
(* counter = 0, period = n >= 1, and the number of ticks since then.       *)
(* nloads counts the stores and nsteps the ticks.                          *)
(***************************************************************************)
MaxRegWrites == 3
MaxRegTicks == 5

TimerNames == {"timer1", "timer2"}

TimerRegisters(x) ==
  IF x = "timer1"
  THEN [ctrl |-> TIMER1_CTRL, period |-> TIMER1_PERIOD, count |-> TIMER1_COUNT,
        reset |-> TIMER1_RESET, ack |-> TIMER1_ACK]
  ELSE [ctrl |-> TIMER2_CTRL, period |-> TIMER2_PERIOD, count |-> TIMER2_COUNT,
        reset |-> TIMER2_RESET, ack |-> TIMER2_ACK]

RegAddrs(x) == {TimerRegisters(x)[f] : f \in {"ctrl", "period", "count", "reset", "ack"}}

\* 0, IE alone (or a period of 2), EN|IE|ONESHOT (or a period of 7)
RegWords == {Zero32, <<0, IRQ_ENABLED>>, <<0, ENABLED_BIT + IRQ_ENABLED + ONE_SHOT>>}

\* a timer as the one-shot case describes it
OneShotArmed(t) ==
  /\ HasBit(t.ctrl, ENABLED_BIT) /\ HasBit(t.ctrl, IRQ_ENABLED)
  /\ HasBit(t.ctrl, ONE_SHOT)
  /\ t.counter = Zero32 /\ t.period # Zero32

NoShot == [armed |-> FALSE, n |-> Zero32, ticks |-> 0]

Shot == IF last.kind = "reg" THEN last.shot
        ELSE [timer1 |-> NoShot, timer2 |-> NoShot]

\* the run of timer t after a store to one of its registers: a store that
\* leaves it armed starts a run, an ACK store leaves a run as it is, any
\* other store ends it
ShotAfterStore(s, t, is_ack) ==
  IF OneShotArmed(t) THEN [armed |-> TRUE, n |-> t.period, ticks |-> 0]
  ELSE IF is_ack THEN s ELSE NoShot

RegRecord(op, x, addr, value, res, shot) ==
  [fresh |-> TRUE, kind |-> "reg", cpu |-> cpu, bus |-> bus, bus0 |-> bus,
   irq |-> NoIrq, res |-> res, prev |-> NoStep,
   op |-> op, timer |-> x, addr |-> addr, value |-> value, shot |-> shot]

\* software stores a word to a register of timer x
RegStore32(x, addr, value) ==
  /\ nloads < MaxRegWrites
  /\ LET r == Store32(bus, addr, value)
     IN  /\ bus' = r.bus
         /\ last' = RegRecord("store32", x, addr, value, r.res,
                       [Shot EXCEPT ![x] =
                          ShotAfterStore(@, r.bus[x],
                                         addr = TimerRegisters(x).ack)])
  /\ nloads' = nloads + 1
  /\ UNCHANGED <<cpu, nsteps>>

\* Timer::tick of timer x
RegTick(x) ==
  /\ nsteps < MaxRegTicks
  /\ bus' = [bus EXCEPT ![x] = TimerTick(@)]
  /\ last' = RegRecord("tick", x, Zero32, Zero32, OkRes,
                [Shot EXCEPT ![x].ticks = IF Shot[x].armed THEN @ + 1 ELSE @])
  /\ nsteps' = nsteps + 1
  /\ UNCHANGED <<cpu, nloads>>

NextRegs ==
  \/ \E x \in TimerNames : \E a \in RegAddrs(x) : \E w \in RegWords :
       RegStore32(x, a, w)
  \/ \E x \in TimerNames : RegTick(x)

SpecRegs == Init /\ [][NextRegs]_vars

\* the most recent call was a store to register f of timer x
Stored(x, f) ==
  /\ last.kind = "reg" /\ last.op = "store32"
  /\ last.addr = TimerRegisters(x)[f]

\* the most recent call was a tick of timer x
Ticked(x) == last.kind = "reg" /\ last.op = "tick" /\ last.timer = x

OtherTimer(x) == IF x = "timer1" THEN "timer2" ELSE "timer1"

(***************************************************************************)
(* C32: timer register writes have exactly these effects: PERIOD sets      *)
(* period and resets counter to 0; RESET (any value) sets counter to 0     *)
(* and changes nothing else; ACK (any value) clears irq and changes        *)
(* nothing else; CTRL replaces ctrl only; COUNT changes nothing.  An       *)
(* asserted irq stays asserted across ticks and across CTRL, PERIOD and    *)
(* RESET writes, and a write to a register of one timer never changes the  *)
(* other timer.                                                            *)
(***************************************************************************)
C32_RegisterWrites ==
  \A x \in TimerNames :
    LET t0 == last.bus0[x]
        t == bus[x]
    IN  /\ Stored(x, "period")
           => t = [t0 EXCEPT !.period = last.value, !.counter = Zero32]
        /\ Stored(x, "reset") => t = [t0 EXCEPT !.counter = Zero32]
        /\ Stored(x, "ack") => t = [t0 EXCEPT !.irq = FALSE]
        /\ Stored(x, "ctrl") => t = [t0 EXCEPT !.ctrl = last.value]
        /\ Stored(x, "count") => t = t0
        /\ (Ticked(x) \/ Stored(x, "ctrl") \/ Stored(x, "period")
              \/ Stored(x, "reset")) /\ t0.irq => t.irq
        /\ last.kind = "reg" /\ last.timer = x
           => bus = [last.bus0 EXCEPT ![x] = t]

\* a RESET store of a nonzero value to Timer1, whose counter was running
\* and whose irq was pending, while Timer2 had an irq pending of its own
C32_Witness ==
  /\ Stored("timer1", "reset") /\ last.value # Zero32
  /\ last.bus0.timer1.counter # Zero32 /\ last.bus0.timer1.irq
  /\ bus.timer1.counter = Zero32 /\ bus.timer1.irq
  /\ bus.timer2.irq /\ bus.timer2.period # Zero32

(***************************************************************************)
(* C33: a tick of a timer whose period is 0 or whose EN bit is clear       *)
(* changes no timer state.  A one-shot timer (EN|IE|ONESHOT, counter = 0,  *)
(* period = N >= 1) counts up to tick N, asserts irq and clears EN on tick *)
(* N, and is left unchanged by every tick after that until software writes *)
(* its CTRL, PERIOD, RESET or COUNT register -- also after an ACK write    *)
(* has cleared the irq.                                                    *)
(***************************************************************************)
C33_OneShot ==
  \A x \in TimerNames :
    Ticked(x) =>
      LET t0 == last.bus0[x]
          t == bus[x]
          s == last.shot[x]
      IN  /\ t0.period = Zero32 \/ ~HasBit(t0.ctrl, ENABLED_BIT) => t = t0
          /\ s.armed /\ LtU32(<<0, s.ticks>>, s.n)
             => /\ t.counter = <<0, s.ticks>>
                /\ HasBit(t.ctrl, ENABLED_BIT)
                /\ t.irq = t0.irq
          /\ s.armed /\ <<0, s.ticks>> = s.n
             => /\ t.irq
                /\ ~HasBit(t.ctrl, ENABLED_BIT)
                /\ t.period = s.n
          /\ s.armed /\ LtU32(s.n, <<0, s.ticks>>)
             => t = t0 /\ ~HasBit(t.ctrl, ENABLED_BIT)

\* Timer1, armed as a one-shot of period 2, fired on tick 2, its irq was
\* acknowledged, and this is the second tick after that
C33_Witness ==
  /\ Ticked("timer1")
  /\ last.shot.timer1.armed /\ last.shot.timer1.n = <<0, 2>>
  /\ last.shot.timer1.ticks = 4
  /\ ~bus.timer1.irq /\ bus.timer1.counter = <<0, 2>>
  /\ bus.timer1 = last.bus0.timer1

(***************************************************************************)
(* Byte access to the registers: software sets CTRL and PERIOD of the      *)
(* timers to a word whose four bytes differ, the host sets the UART        *)
(* status, Timer1 ticks, and then one load8 or store8 of NovaBus is made   *)
(* at a byte address of a register.                                        *)
(***************************************************************************)
\* 0x1234_5678
ByteWords == {<<4660, 22136>>}

ByteRegs(x) == {TimerRegisters(x).ctrl, TimerRegisters(x).period}

\* the four byte addresses of every defined register
RegByteAddrs == {<<r[1], r[2] + k>> : r \in MmioRegisters, k \in 0..3}

NextBytes ==
  \/ last.kind # "bus" /\ \E v \in StatusValues : UartSetStatusCall(v)
  \/ last.kind # "bus"
     /\ \E x \in TimerNames : \E a \in ByteRegs(x) : \E w \in ByteWords :
          RegStore32(x, a, w)
  \/ last.kind # "bus" /\ RegTick("timer1")
  \/ \E a \in RegByteAddrs : BusLoad8(a)
  \/ \E a \in RegByteAddrs : \E v \in BusBytes : BusStore8(a, v)

SpecBytes == Init /\ [][NextBytes]_vars

(***************************************************************************)
(* C34: MMIO byte access is synthesized from the aligned word: load8 at    *)
(* MMIO address a returns byte number (a & 3) of the 32-bit register at    *)
(* a & ~3; store8 at a to a register other than UART TX writes back the    *)
(* register's current word with only that byte replaced, so that the       *)
(* other three bytes of a timer CTRL or PERIOD register keep their values; *)
(* store8 to UART TX transmits the byte directly.                          *)
(***************************************************************************)
C34_ByteAccess ==
  LET a == last.addr
      reg == Align4(a)
      i == a[2] % 4
      word == Load32(last.bus0, reg).val
  IN  /\ BusCalled({"load8"})
         => last.res = OkRes /\ last.val = <<0, ByteOf(word, i)>>
      /\ BusCalled({"store8"}) /\ a # UART_TX
         => /\ last.res = OkRes
            /\ bus = Store32(last.bus0, reg, WithByte(word, i, last.value[2])).bus
            /\ reg \in ByteRegs("timer1") \cup ByteRegs("timer2")
               => \A j \in 0..3 :
                    ByteOf(Load32(bus, reg).val, j)
                      = IF j = i THEN last.value[2] ELSE ByteOf(word, j)
      /\ BusCalled({"store8"}) /\ a = UART_TX
         => /\ last.res = OkRes
            /\ bus.uart.tx = Append(last.bus0.uart.tx, last.value[2])
            /\ bus = [last.bus0 EXCEPT !.uart = UartWriteTx(@, last.value[2])]

\* store8 of 0xFF to byte 2 of Timer1's PERIOD register, which held
\* 0x1234_5678 while the counter was running: the period is 0x12FF_5678
C34_Witness ==
  /\ BusCalled({"store8"}) /\ last.addr = <<TIMER1_PERIOD[1], TIMER1_PERIOD[2] + 2>>
  /\ last.value = <<0, 255>>
  /\ last.bus0.timer1.period = <<4660, 22136>>
  /\ last.bus0.timer1.counter # Zero32
  /\ bus.timer1.period = <<4863, 22136>>
  /\ bus.timer1.counter = Zero32

(***************************************************************************)
(* Segment assembly (assemble_nv32, steps 3 and 4).  The sparse map is     *)
(* kept as the sequence of its inserts: the data words, then the encoded   *)
(* instructions, a later insert replacing an earlier one at the same       *)
(* address.                                                                *)
(***************************************************************************)
Inserts(asm) == asm.data \o asm.mem

\* mem.get(&addr): the word of the last insert at addr
MemWord(ins, addr) ==
  ins[CHOOSE i \in DOMAIN ins :
        /\ ins[i].addr = addr
        /\ \A j \in DOMAIN ins : ins[j].addr = addr => j <= i].word

\* addrs.sort_unstable() on the keys of the map
RECURSIVE SortAddrs(_)
SortAddrs(S) ==
  IF S = {} THEN <<>>
  ELSE LET m == CHOOSE a \in S : \A b \in S : LeU32(a, b)
       IN  <<m>> \o SortAddrs(S \ {m})

\* mutant of Sweep: a run is never broken, all words go to one segment
RECURSIVE Sweep_OneRun(_, _, _, _, _, _)
Sweep_OneRun(ins, addrs, cur_base, cur_words, prev_addr, segments) ==
  IF addrs = <<>>
  THEN IF cur_words # <<>>
       THEN Append(segments, CodeData(cur_base, cur_words)) ELSE segments
  ELSE Sweep_OneRun(ins, Tail(addrs), cur_base,
                    Append(cur_words, MemWord(ins, Head(addrs))),
                    Head(addrs), segments)

\* the loop over the sorted addresses and the flush after it: a segment is
\* closed where addr != prev_addr + 4
RECURSIVE Sweep(_, _, _, _, _, _)
Sweep(ins, addrs, cur_base, cur_words, prev_addr, segments) ==
  IF addrs = <<>>
  THEN IF cur_words # <<>>
       THEN Append(segments, CodeData(cur_base, cur_words)) ELSE segments
  ELSE LET addr == Head(addrs)
           break == addr # Add32(prev_addr, <<0, 4>>)
       IN  Sweep(ins, Tail(addrs),
                 IF break THEN addr ELSE cur_base,
                 IF break THEN <<MemWord(ins, addr)>>
                 ELSE Append(cur_words, MemWord(ins, addr)),
                 addr,
                 IF break /\ cur_words # <<>>
                 THEN Append(segments, CodeData(cur_base, cur_words))
                 ELSE segments)

CodeDataSegments(ins, addrs) ==
  IF addrs = <<>> THEN <<>>
  ELSE Sweep(ins, addrs, addrs[1], <<>>, Sub32(addrs[1], <<0, 4>>), <<>>)

BssSegments(bss) == [i \in DOMAIN bss |-> Bss(bss[i].base, bss[i].len)]

\* segments.sort_by_key(|s| s.base_addr): a stable sort
RECURSIVE SortByBase(_)
SortByBase(segs) ==
  IF segs = <<>> THEN <<>>
  ELSE LET n == Len(segs)
           front == SortByBase(SubSeq(segs, 1, n - 1))
           k == Cardinality({i \in DOMAIN front :
                               LeU32(front[i].base_addr, segs[n].base_addr)})
       IN  SubSeq(front, 1, k) \o <<segs[n]>> \o SubSeq(front, k + 1, n - 1)

\* the segments assemble_nv32 returns
Segments(asm) ==
  SortByBase(CodeDataSegments(Inserts(asm),
                              SortAddrs({Inserts(asm)[i].addr :
                                           i \in DOMAIN Inserts(asm)}))
             \o BssSegments(asm.bss))

(***************************************************************************)
(* Programs for the layout: up to MaxChunks chunks, each an optional       *)
(* .org followed by one thing to lay out.  Chunk i loads the number i, so  *)
(* that the words of different chunks differ.                              *)
(***************************************************************************)
MaxChunks == 2

\* no .org, or .org 0, 2 or 8
Orgs == {"", "0", "2", "8"}

OrgLine(org) ==
  IF org = "" THEN <<>>
  ELSE <<Ln("", ".org", 0, 0,
            Lit("dec", 0, IF org = "0" THEN 0 ELSE IF org = "2" THEN 2 ELSE 8))>>

\* addi ri, r0, i (one word); li ri, 0x0012_000i (two words); .ascii of
\* five bytes (two words); .string of three bytes (one word); .bss 2
Bodies == {"addi", "li", ".ascii", ".string", ".bss"}

BodyLine(body, i) ==
  CASE body = "addi" -> Ln("", "addi", i, 0, Lit("dec", 0, i))
    [] body = "li" -> Ln("", "li", i, 0, Lit("hex", 18, i))
    [] body = ".ascii" -> Ln("", ".ascii", 0, 0, Str(<<97, 98, 99, 100, 48 + i>>))
    [] body = ".string" -> Ln("", ".string", 0, 0, Str(<<65, 66, 48 + i>>))
    [] body = ".bss" -> Ln("", ".bss", 0, 0, Lit("dec", 0, 2))

Chunks == Orgs \X Bodies

RECURSIVE LayoutSource(_, _)
LayoutSource(chunks, i) ==
  IF i > Len(chunks) THEN <<>>
  ELSE OrgLine(chunks[i][1]) \o <<BodyLine(chunks[i][2], i)>>
       \o LayoutSource(chunks, i + 1)

ChunkLists == UNION {[1..n -> Chunks] : n \in 1..MaxChunks}

\* what the call returned, with what the first pass laid out
LayoutOutcome(asm) ==
  [ok |-> asm.ok, inserts |-> Inserts(asm), bss |-> asm.bss,
   segments |-> IF asm.ok THEN Segments(asm) ELSE <<>>]

\* assemble_nv32(source)
AssembleLayout(chunks) ==
  /\ last.kind # "layout"
  /\ last' = [fresh |-> TRUE, kind |-> "layout", cpu |-> cpu, bus |-> bus,
              bus0 |-> bus, irq |-> NoIrq, res |-> OkRes, prev |-> NoStep,
              chunks |-> chunks,
              out |-> LayoutOutcome(Assemble(LayoutSource(chunks, 1)))]
  /\ UNCHANGED <<cpu, bus, nloads, nsteps>>

NextLayout == \E chunks \in ChunkLists : AssembleLayout(chunks)

SpecLayout == Init /\ [][NextLayout]_vars

\* the most recent call was a successful assemble_nv32
LaidOut == last.fresh /\ last.kind = "layout" /\ last.out.ok

CodeDataIndexes ==
  {i \in DOMAIN last.out.segments : last.out.segments[i].kind = "CodeData"}

\* position k (from 1) of segment seg holds the insert ins
HoldsAt(seg, k, ins) ==
  /\ k <= Len(seg.words)
  /\ Add32(seg.base_addr, <<0, 4 * (k - 1)>>) = ins.addr
  /\ seg.words[k] = ins.word

\* each code/data segment is a run of consecutive word addresses that were
\* laid out, with length_words its number of words and word i the one laid
\* out at base_addr + 4*i
RunsOfLaidOutWords ==
  \A i \in CodeDataIndexes :
    LET seg == last.out.segments[i]
    IN  /\ seg.words # <<>>
        /\ seg.length_words = <<0, Len(seg.words)>>
        /\ \A k \in 1..Len(seg.words) :
             \E j \in DOMAIN last.out.inserts :
               HoldsAt(seg, k, last.out.inserts[j])

\* the runs are maximal: no code/data segment begins where another ends
NoneAdjacent ==
  \A i \in CodeDataIndexes : \A j \in CodeDataIndexes :
    i # j => Add32(last.out.segments[i].base_addr,
                   Shl32(last.out.segments[i].length_words, 2))
               # last.out.segments[j].base_addr

NoneOverlap ==
  \A i \in CodeDataIndexes : \A j \in CodeDataIndexes :
    i # j => SegmentRange(last.out.segments[i])
               \cap SegmentRange(last.out.segments[j]) = {}

\* every emitted instruction and data word is in exactly one place
EachWordOnce ==
  \A j \in DOMAIN last.out.inserts :
    Cardinality({p \in CodeDataIndexes \X (1..(2 * MaxChunks)) :
                   HoldsAt(last.out.segments[p[1]], p[2],
                           last.out.inserts[j])}) = 1

\* the BSS segments are the reservations, each with no words
BssAsReserved ==
  LET segs == last.out.segments
      idx == DOMAIN segs \ CodeDataIndexes
  IN  /\ Cardinality(idx) = Len(last.out.bss)
      /\ \A r \in {last.out.bss[i] : i \in DOMAIN last.out.bss} :
           Cardinality({i \in DOMAIN last.out.bss : last.out.bss[i] = r})
             = Cardinality({i \in idx :
                              segs[i] = [kind |-> "Bss", base_addr |-> r.base,
                                         length_words |-> r.len,
                                         words |-> <<>>]})

SortedByBase ==
  \A i \in DOMAIN last.out.segments : \A j \in DOMAIN last.out.segments :
    i < j => LeU32(last.out.segments[i].base_addr,
                   last.out.segments[j].base_addr)

\* every address laid out is a multiple of 4
AlignedLayout ==
  \A j \in DOMAIN last.out.inserts : last.out.inserts[j].addr[2] % 4 = 0

\* no address is laid out twice
NoAddressTwice ==
  \A i \in DOMAIN last.out.inserts : \A j \in DOMAIN last.out.inserts :
    i # j => last.out.inserts[i].addr # last.out.inserts[j].addr

(***************************************************************************)
(* C35, as stated: for every successful assembly, the code/data segments   *)
(* are maximal runs of 4-byte-consecutive addresses (no two overlap or are *)
(* adjacent), each with length_words equal to its number of words and      *)
(* word i the word laid out at base_addr + 4*i, every emitted instruction  *)
(* and data word appears in exactly one segment, BSS reservations are      *)
(* emitted unchanged with no words, and the list is sorted by ascending    *)
(* base_addr.                                                              *)
(***************************************************************************)
C35_SegmentsOfEveryAssembly ==
  LaidOut => /\ RunsOfLaidOutWords
             /\ NoneAdjacent
             /\ NoneOverlap
             /\ EachWordOnce
             /\ BssAsReserved
             /\ SortedByBase

(***************************************************************************)
(* C35, amended: for every successful assembly the code/data segments are  *)
(* runs of 4-byte-consecutive addresses, each with length_words equal to   *)
(* its number of words and word i a word laid out at base_addr + 4*i; BSS  *)
(* reservations are emitted unchanged with no words; the list is sorted by *)
(* ascending base_addr.  When every address laid out is 4-byte aligned,    *)
(* the runs are maximal: no two code/data segments overlap or are          *)
(* adjacent.  When no address is laid out twice, every emitted instruction *)
(* and data word appears in exactly one segment.                           *)
(***************************************************************************)
C35_Segments ==
  LaidOut => /\ RunsOfLaidOutWords
             /\ AlignedLayout => NoneAdjacent /\ NoneOverlap
             /\ NoAddressTwice => EachWordOnce
             /\ BssAsReserved
             /\ SortedByBase

\* addi at 8 comes first in the source, the two words of li at 0 and 4
\* after it: one segment of three words at 0, the addi last
C35_Witness ==
  /\ LaidOut /\ AlignedLayout /\ NoAddressTwice
  /\ last.chunks = <<<<"8", "addi">>, <<"0", "li">>>>
  /\ Len(last.out.segments) = 1
  /\ last.out.segments[1].base_addr = Zero32
  /\ last.out.segments[1].length_words = <<0, 3>>
  /\ last.out.segments[1].words[3] = last.out.inserts[1].word

(***************************************************************************)
(* The machine left to itself: the host sets timer periods, enables the    *)
(* UART interrupt, lets a byte arrive and loads a handler at the exception *)
(* vector; after that only Machine::step runs.                             *)
(***************************************************************************)
\* at 0x100: LUI r1, 0x8000; ORI r1, r1, 0x2110; SW r0, 0(r1) -- a handler
\* that acknowledges Timer1
AckImage ==
  [base |-> EXCEPTION_VECTOR,
   words |-> <<EncI(OP_LUI, 1, 0, 32768), EncI(OP_ORI, 1, 1, 8464),
               EncI(OP_SW, 0, 1, 0)>>]

\* at 0: ADDI r1, r0, 2; JR r1 -- a jump to a misaligned address
JumpOddImage ==
  [base |-> Zero32,
   words |-> <<EncI(OP_ADDI, 1, 0, 2), EncI(OP_JR, 0, 1, 0)>>]

\* at 0: LUI r1, 0x0010; JR r1 -- a jump past the end of RAM
JumpOutImage ==
  [base |-> Zero32,
   words |-> <<EncI(OP_LUI, 1, 0, 16), EncI(OP_JR, 0, 1, 0)>>]

StormImages == {TimerImage, NopImage, AckImage, JumpOddImage, JumpOutImage}

StormPeriods == {<<0, 1>>, <<0, 3>>}

\* a byte reaches the backend before the machine runs
StormArrive(v) ==
  /\ nsteps = 0 /\ bus.uart.rx = <<>>
  /\ bus' = [bus EXCEPT !.uart.rx = Append(@, v)]
  /\ last' = [last EXCEPT !.fresh = FALSE]
  /\ UNCHANGED <<cpu, nloads, nsteps>>

NextStorm ==
  \/ \E p \in StormPeriods : ConfigureTimer1(p)
  \/ \E p \in StormPeriods : ConfigureTimer2(p)
  \/ UartSetStatusCall(<<0, IRQ_ENABLE>>)
  \/ \E v \in RxBytes : StormArrive(v)
  \/ \E img \in StormImages : LoadImage(img)
  \/ nsteps < MaxRunSteps /\ MachineStep

SpecStorm == Init /\ [][NextStorm]_vars

\* the step before the most recent one entered the interrupt as well
PrevEntered ==
  /\ last.prev.kind = "machine" /\ ~last.prev.executed
  /\ ~last.cpu.halted
  /\ last.prev.pc[2] % 4 = 0 /\ LeU32(last.prev.pc, RAM_END)

(***************************************************************************)
(* C36: while any IRQ line stays asserted, a non-halted CPU whose fetch    *)
(* succeeds executes no instruction: every Machine::step re-enters the     *)
(* exception vector, so the second consecutive entry overwrites EPC with   *)
(* 0x0000_0100 and the interrupted PC is lost.  A timer IRQ raised under   *)
(* Machine::step alone is never cleared, and after it was raised the       *)
(* instruction at 0x0000_0100 is never executed.                           *)
(***************************************************************************)
C36_IrqStorm ==
  last.fresh /\ last.kind = "machine" =>
    /\ Ran /\ IrqAsserted
       => /\ cpu = TakeException(last.cpu, IrqCheck(last.irq).cause, last.cpu.pc)
          /\ cpu.pc = EXCEPTION_VECTOR /\ cpu.epc = last.cpu.pc
          /\ cpu.regs = last.cpu.regs /\ ~cpu.halted
          /\ bus = last.bus
    /\ Ran /\ IrqAsserted /\ PrevEntered
       => last.cpu.pc = EXCEPTION_VECTOR /\ cpu.epc = EXCEPTION_VECTOR
    /\ \A x \in TimerNames : last.bus0[x].irq => bus[x].irq
    /\ Ran /\ (last.bus0.timer1.irq \/ last.bus0.timer2.irq)
       => /\ IrqAsserted
          /\ last.cpu.pc = EXCEPTION_VECTOR /\ cpu.pc = EXCEPTION_VECTOR
          /\ cpu.regs = last.cpu.regs /\ ~cpu.halted

\* Timer1 of period 3 fired in the third step, at PC 8; this is the fifth
\* step: EPC is 0x100, the handler's first word (LUI r1) has not run and
\* the IRQ is still pending
C36_Witness ==
  /\ last.fresh /\ last.kind = "machine" /\ nsteps = 5
  /\ bus.timer1.period = <<0, 3>> /\ bus.timer2.period = Zero32
  /\ Fetched.val = EncI(OP_LUI, 1, 0, 32768)
  /\ PrevEntered /\ Ran /\ IrqAsserted
  /\ cpu.epc = EXCEPTION_VECTOR /\ cpu.regs[1] = Zero32
  /\ bus.timer1.irq

(***************************************************************************)
(* C37: in every UART state reachable by tick, read_rx, write_tx and       *)
(* set_status, RX_AVAILABLE is set in status if and only if rx_buffer      *)
(* holds a byte.                                                           *)
(***************************************************************************)
C37_AvailableIffBuffered ==
  HasBit(bus.uart.status, RX_AVAILABLE) <=> bus.uart.rx_buffer # <<>>

(***************************************************************************)
(* C38: in every UART state reachable by tick, read_rx, write_tx and       *)
(* set_status, irq asserted implies that IRQ_ENABLE is set in status and   *)
(* that rx_buffer holds an unread byte.                                    *)
(***************************************************************************)
C38_IrqMeansEnabledAndBuffered ==
  bus.uart.irq =>
    /\ HasBit(bus.uart.status, IRQ_ENABLE)
    /\ bus.uart.rx_buffer # <<>>

\* irq is asserted after a write_tx that followed the tick taking a byte
C38_Witness ==
  /\ RxCalled("write_tx") /\ bus.uart.irq
  /\ last.bus.uart.irq /\ bus.uart.rx_buffer = <<13>>
  /\ bus.uart.tx # <<>>

(***************************************************************************)
(* Alignment of the PC: programs of branches, jumps, register jumps with   *)
(* aligned and unaligned sources, an undefined opcode and HALT, stepped    *)
(* with and without an asserted IRQ line.                                  *)
(***************************************************************************)
AlignWords ==
  {EncI(OP_ADDI, 1, 0, 2), EncI(OP_ADDI, 1, 0, 8), EncI(OP_ADDI, 1, 0, 65535),
   EncI(OP_JR, 0, 1, 0), EncI(OP_JALR, 3, 1, 0),
   EncI(OP_BEQ, 0, 0, 3), EncI(OP_BNE, 1, 0, 65535),
   EncJ(OP_J, 0, 3), EncJ(OP_JAL, 0, 64),
   EncI(10, 1, 1, 7), EncI(OP_HALT, 0, 0, 0)}

AlignSnapshots == {NoIrq, [NoIrq EXCEPT !.timer2 = TRUE]}

NextAlign ==
  \/ nloads < MaxAlignLoads /\ \E w \in AlignWords : LoadProgram(w)
  \/ nsteps < MaxAlignSteps /\ \E irq \in AlignSnapshots : CpuStepCall(irq)

SpecAlign == Init /\ [][NextAlign]_vars

PcAligned(c) == c.pc[2] % 4 = 0

\* the step executed JR or JALR with a source value that is no multiple of 4
UnalignedRegisterJump ==
  /\ Executed /\ LastInstr.opcode \in {OP_JR, OP_JALR}
  /\ last.cpu.regs[LastInstr.rs][2] % 4 # 0

(***************************************************************************)
(* C39: the PC is 4-byte aligned after reset, and every step from an       *)
(* aligned PC that does not execute JR or JALR with a source value that is *)
(* not a multiple of 4 leaves it aligned: sequential execution, taken and  *)
(* untaken branches, J/JAL, interrupt entry and illegal-opcode entry.  A   *)
(* step at a misaligned PC executes nothing: the fetch fails with          *)
(* Misaligned and the CPU state is unchanged.                              *)
(***************************************************************************)
C39_PcAlignment ==
  /\ nsteps = 0 => PcAligned(cpu)
  /\ last.fresh /\ last.kind = "cpu" /\ PcAligned(last.cpu)
     /\ ~UnalignedRegisterJump
     => PcAligned(cpu)
  /\ last.fresh /\ last.kind = "cpu" /\ ~PcAligned(last.cpu)
     => /\ last.res = Misaligned(last.cpu.pc)
        /\ cpu = last.cpu /\ bus = last.bus

\* JR r1 with r1 = 2 was executed at PC 4; the step at PC 2, with Timer2's
\* line asserted, failed with Misaligned
C39_Witness ==
  /\ last.fresh /\ last.kind = "cpu"
  /\ last.prev.kind = "cpu" /\ last.prev.executed
  /\ last.prev.pc = <<0, 4>> /\ last.prev.raw = EncI(OP_JR, 0, 1, 0)
  /\ last.cpu.pc = <<0, 2>> /\ last.irq.timer2
  /\ last.res = Misaligned(<<0, 2>>) /\ cpu.pc = <<0, 2>>

\* a running CPU whose fetch at the current PC fails
Stuck(c, b) == ~c.halted /\ Load32(b, c.pc).res.tag # "Ok"

(***************************************************************************)
(* C40: the fetch comes before the interrupt check.  When the fetch at the *)
(* current PC fails (PC misaligned or unmapped), a Machine::step takes no  *)
(* interrupt even if an IRQ line is asserted: it ticks the devices and     *)
(* leaves the CPU state unchanged, the error is dropped, and the fetch     *)
(* fails again in the state it leaves, so every later Machine::step does   *)
(* the same, forever.                                                      *)
(***************************************************************************)
C40_FetchBeforeIrq ==
  [][Stuck(cpu, bus)
     => /\ cpu' = cpu
        /\ Stuck(cpu', bus')
        /\ nsteps' # nsteps
           => /\ bus' = TickDevices(bus)
              /\ last'.res = Load32(bus', cpu.pc).res
              /\ last'.irq = Snapshot(bus')]_vars

\* the second failed step at the misaligned PC 2: Timer1's line is asserted,
\* the counter of Timer2 has moved, the CPU is as it was, no exception
\* was entered
C40_Witness ==
  /\ last.fresh /\ last.kind = "machine"
  /\ last.cpu.pc = <<0, 2>> /\ last.res = Misaligned(<<0, 2>>)
  /\ last.prev.kind = "machine" /\ last.prev.pc = <<0, 2>>
  /\ last.irq.timer1 /\ bus.timer1.irq
  /\ bus.timer2.counter # last.bus0.timer2.counter
  /\ cpu = last.cpu /\ cpu.epc = Zero32 /\ cpu.pc = <<0, 2>>

====
